---- MODULE Spec2Model ----
(***************************************************************************)
(* Model of the geozarr-toolkit convention schemas (Spatial, Proj,         *)
(* Multiscales, ZarrConventionMetadata), the convention detector and the   *)
(* validation engine (validate_attrs / validate_group).                    *)
(*                                                                         *)
(* Every operation of the library is a function of its arguments, so each  *)
(* specification draws the arguments in Init and has one action per        *)
(* operation; the action records the outcome in ret and the externally     *)
(* visible steps (record constructions, CRS-authority lookups) in trace.   *)
(***************************************************************************)
EXTENDS Integers, Sequences, FiniteSets, TLC

VARIABLES
    attrs,        \* the mapping handed to the operation (attrs / **kwargs)
    conventions,  \* the conventions argument: NoneArg or the names listed
    members,      \* names of the child members of the group
    pyproj,       \* the CRS-authority capability: installed?, registered codes, failing?
    pc,           \* "start", or the name of the operation that has run
    ret,          \* what the operation returned or raised
    trace,        \* constructions and lookups performed by the operation
    request,      \* the HTTP request line or the command line: path, options
    store         \* the Zarr store behind a url or path: can it be opened?

vars == <<attrs, conventions, members, pyproj, pc, ret, trace, request, store>>

(***************************************************************************)
(* JSON-like Python values, tagged with their type.  A str is either       *)
(* atomic (field v) or spelled character by character (field chars) where  *)
(* the code looks inside it (proj:code).                                   *)
(***************************************************************************)
Unset == [t |-> "unset"]
Null == [t |-> "null"]
Str(s) == [t |-> "str", v |-> s]
Chars(cs) == [t |-> "str", chars |-> cs]
Num(n) == [t |-> "int", v |-> n]
List(of, s) == [t |-> "list", of |-> of, v |-> s]
Dict(m) == [t |-> "dict", v |-> m]

EmptyMap == [k \in {} |-> Null]
Opt(k, vals) == {EmptyMap} \cup {k :> v : v \in vals}
Merge(S, T) == {s @@ u : s \in S, u \in T}

NoneArg == [t |-> "null"]
NoReturn == [kind |-> "none"]
NoRequest == [path |-> ""]
NoStore == [opens |-> FALSE]

\* Python truthiness of a value: None, "", [], {} and 0 are falsy.
Truthy(v) ==
    CASE v.t = "unset" -> FALSE
      [] v.t = "null" -> FALSE
      [] v.t = "str" -> IF "chars" \in DOMAIN v THEN Len(v.chars) > 0 ELSE v.v # ""
      [] v.t = "int" -> v.v # 0
      [] v.t = "bool" -> v.v
      [] v.t = "list" -> Len(v.v) > 0
      [] v.t = "dict" -> DOMAIN v.v # {}

\* dict.get(key): the value, or None when the key is missing.
Get(m, k) == IF k \in DOMAIN m THEN m[k] ELSE Null

(***************************************************************************)
(* pydantic machinery shared by the schemas.                               *)
(***************************************************************************)
Err(loc, msg, arg) == [loc |-> loc, msg |-> msg, arg |-> arg]

\* A field is looked up under its alias first and, because the models set
\* populate_by_name, under its field name second.
FieldValue(data, alias, name) ==
    IF alias \in DOMAIN data THEN data[alias]
    ELSE IF name \in DOMAIN data THEN data[name]
    ELSE Unset

\* The key a field was taken from (none when it fell back to its default).
UsedKey(data, alias, name) ==
    IF alias \in DOMAIN data THEN {alias}
    ELSE IF name \in DOMAIN data THEN {name}
    ELSE {}

IsStr(v) == v.t = "str"
IsDict(v) == v.t = "dict"
IsListOf(v, of) == v.t = "list" /\ (Len(v.v) = 0 \/ v.of = of)

When(cond, e) == IF cond THEN <<e>> ELSE <<>>

\* mode="after" model validators run in definition order and the first one
\* that raises ends the validation: its error is the only one reported.
RECURSIVE FirstFailure(_)
FirstFailure(checks) ==
    IF checks = <<>> THEN <<>>
    ELSE IF Head(checks).fails THEN <<Head(checks).err>>
    ELSE FirstFailure(Tail(checks))

Ok(rec) == [ok |-> TRUE, rec |-> rec, errors |-> <<>>]
Invalid(errors) == [ok |-> FALSE, errors |-> errors]

(***************************************************************************)
(* conventions/spatial.py                                                  *)
(***************************************************************************)
SPATIAL_UUID == "689b58e2-cf7b-45e0-9fff-9cfc0883d6b4"

MsgFieldRequired == "Field required"
MsgNotAList == "Input should be a valid list"
MsgNotAString == "Input should be a valid string"
MsgNotADict == "Input should be a valid dictionary"
MsgDimensionsEmpty == "Value error, spatial:dimensions must contain at least one dimension"
MsgTransformLength == "Value error, spatial:transform must have exactly 6 coefficients for 2D affine"
MsgRegistration == "Value error, spatial:registration must be 'pixel' or 'node'"

\* The field declarations of Spatial: the errors of the fields, in field order.
SpatialFieldErrors(data) ==
    LET dimensions == FieldValue(data, "spatial:dimensions", "dimensions")
        bbox == FieldValue(data, "spatial:bbox", "bbox")
        transform_type == FieldValue(data, "spatial:transform_type", "transform_type")
        transform == FieldValue(data, "spatial:transform", "transform")
        shape == FieldValue(data, "spatial:shape", "shape")
        registration == FieldValue(data, "spatial:registration", "registration")
    IN  When(dimensions = Unset, Err("spatial:dimensions", MsgFieldRequired, Null))
        \o When(dimensions # Unset /\ ~IsListOf(dimensions, "str"),
                Err("spatial:dimensions", MsgNotAList, Null))
        \o When(bbox \notin {Unset, Null} /\ ~IsListOf(bbox, "num"),
                Err("spatial:bbox", MsgNotAList, Null))
        \o When(transform_type # Unset /\ ~IsStr(transform_type),
                Err("spatial:transform_type", MsgNotAString, Null))
        \o When(transform \notin {Unset, Null} /\ ~IsListOf(transform, "num"),
                Err("spatial:transform", MsgNotAList, Null))
        \o When(shape \notin {Unset, Null} /\ ~IsListOf(shape, "num"),
                Err("spatial:shape", MsgNotAList, Null))
        \o When(registration # Unset /\ ~IsStr(registration),
                Err("spatial:registration", MsgNotAString, Null))

\* The record the field declarations produce: defaults filled in, unknown
\* keys kept (extra = allow).
SpatialRecord(data) ==
    LET orDefault(v, d) == IF v = Unset THEN d ELSE v
        used == UsedKey(data, "spatial:dimensions", "dimensions")
                \cup UsedKey(data, "spatial:bbox", "bbox")
                \cup UsedKey(data, "spatial:transform_type", "transform_type")
                \cup UsedKey(data, "spatial:transform", "transform")
                \cup UsedKey(data, "spatial:shape", "shape")
                \cup UsedKey(data, "spatial:registration", "registration")
    IN  [dimensions |-> FieldValue(data, "spatial:dimensions", "dimensions"),
         bbox |-> orDefault(FieldValue(data, "spatial:bbox", "bbox"), Null),
         transform_type |->
             orDefault(FieldValue(data, "spatial:transform_type", "transform_type"),
                       Str("affine")),
         transform |-> orDefault(FieldValue(data, "spatial:transform", "transform"), Null),
         shape |-> orDefault(FieldValue(data, "spatial:shape", "shape"), Null),
         registration |->
             orDefault(FieldValue(data, "spatial:registration", "registration"),
                       Str("pixel")),
         extra |-> DOMAIN data \ used]

validate_dimensions_not_empty(self) ==
    [fails |-> ~Truthy(self.dimensions), err |-> Err("", MsgDimensionsEmpty, Null)]

\* A slip in the length test: only transforms that are too short are refused.
validate_transform_length_short(self) ==
    [fails |-> self.transform # Null /\ Len(self.transform.v) < 6,
     err |-> Err("", MsgTransformLength, Null)]

validate_transform_length(self) ==
    [fails |-> self.transform # Null /\ Len(self.transform.v) # 6,
     err |-> Err("", MsgTransformLength, Null)]

validate_registration(self) ==
    [fails |-> self.registration \notin {Str("pixel"), Str("node")},
     err |-> Err("", MsgRegistration, Null)]

\* Spatial(**data): field validation, then the three model validators.
Spatial(data) ==
    LET fieldErrors == SpatialFieldErrors(data)
        self == SpatialRecord(data)
        modelErrors == FirstFailure(<<validate_dimensions_not_empty(self),
                                      validate_transform_length(self),
                                      validate_registration(self)>>)
    IN  IF fieldErrors # <<>> THEN Invalid(fieldErrors)
        ELSE IF modelErrors # <<>> THEN Invalid(modelErrors)
        ELSE Ok(self)

(***************************************************************************)
(* helpers/validation.py: the per-convention validators.                   *)
(***************************************************************************)
Returned(v) == [kind |-> "return", value |-> v]
Raised(exc, errors) == [kind |-> "raise", exc |-> exc, errors |-> errors]
Pair(is_valid, errors) == [is_valid |-> is_valid, errors |-> errors]

validate_spatial(a) ==
    LET r == Spatial(a)
    IN  IF r.ok THEN Returned(Pair(TRUE, <<>>)) ELSE Returned(Pair(FALSE, r.errors))

(***************************************************************************)
(* Arguments the Spatial operations are exercised on.                      *)
(***************************************************************************)
MaxTransformLen == 7

NumList(n) == List("num", [i \in 1..n |-> i])

SpatialDimensionsValues ==
    {List("str", <<>>), List("str", <<"Y", "X">>), Num(5)}

SpatialTransformValues ==
    {Null} \cup {NumList(n) : n \in 0..MaxTransformLen}

SpatialBboxValues == {Null, NumList(0), NumList(3), NumList(4), NumList(6)}

SpatialAttrs ==
    Merge(Opt("spatial:dimensions", SpatialDimensionsValues),
    Merge(Opt("dimensions", {List("str", <<"Y", "X">>)}),
    Merge(Opt("spatial:transform", SpatialTransformValues),
    Merge(Opt("spatial:transform_type", {Str("other")}),
    Merge(Opt("spatial:bbox", SpatialBboxValues),
          Opt("spatial:registration", {Str("pixel"), Str("node"), Str("invalid")}))))))

NoPyproj == [installed |-> FALSE, registered |-> {}, raises |-> FALSE]

InitSpatial ==
    /\ attrs \in SpatialAttrs
    /\ conventions = NoneArg
    /\ members = {}
    /\ request = NoRequest
    /\ store = NoStore
    /\ pyproj = NoPyproj
    /\ pc = "start"
    /\ ret = NoReturn
    /\ trace = <<>>

Construct(cls) == [ev |-> "construct", cls |-> cls]

\* Spatial(**attrs)
ConstructSpatial ==
    /\ pc = "start"
    /\ pc' = "Spatial"
    /\ ret' = (LET r == Spatial(attrs)
               IN  IF r.ok THEN Returned(r.rec) ELSE Raised("ValidationError", r.errors))
    /\ trace' = <<Construct("Spatial")>>
    /\ UNCHANGED <<attrs, conventions, members, pyproj, request, store>>

\* validate_spatial(attrs)
CallValidateSpatial ==
    /\ pc = "start"
    /\ pc' = "validate_spatial"
    /\ ret' = validate_spatial(attrs)
    /\ trace' = <<Construct("Spatial")>>
    /\ UNCHANGED <<attrs, conventions, members, pyproj, request, store>>

NextSpatial == ConstructSpatial \/ CallValidateSpatial

SpecSpatial == InitSpatial /\ [][NextSpatial]_vars

(***************************************************************************)
(* Claims about Spatial construction, under SpecSpatial.                   *)
(***************************************************************************)
\* Every supplied Spatial field has its declared type.
WellTypedSpatial(a) ==
    \A e \in {SpatialFieldErrors(a)[i] : i \in DOMAIN SpatialFieldErrors(a)} :
        e.msg = MsgFieldRequired

SpatialDimensionsOf(a) == FieldValue(a, "spatial:dimensions", "dimensions")
SpatialTransformOf(a) == FieldValue(a, "spatial:transform", "transform")
SpatialRegistrationOf(a) == FieldValue(a, "spatial:registration", "registration")
SpatialTransformTypeOf(a) == FieldValue(a, "spatial:transform_type", "transform_type")

DimensionsNonEmpty(a) ==
    SpatialDimensionsOf(a) # Unset /\ Len(SpatialDimensionsOf(a).v) > 0
TransformAbsent(a) == SpatialTransformOf(a) \in {Unset, Null}
TransformWrongLength(a) == ~TransformAbsent(a) /\ Len(SpatialTransformOf(a).v) # 6
RegistrationAllowed(a) ==
    SpatialRegistrationOf(a) \in {Unset, Str("pixel"), Str("node")}

Mentions(errors, msg) == \E i \in DOMAIN errors : errors[i].msg = msg

\* Success exactly on non-empty dimensions, absent-or-6 transform and an
\* allowed registration.
C5_SuccessIff ==
    (pc = "Spatial" /\ WellTypedSpatial(attrs)) =>
        ((ret.kind = "return") <=>
            (DimensionsNonEmpty(attrs)
             /\ (TransformAbsent(attrs) \/ Len(SpatialTransformOf(attrs).v) = 6)
             /\ RegistrationAllowed(attrs)))

\* With transform_type and registration omitted the record carries the defaults.
C5_Defaults ==
    (pc = "Spatial" /\ ret.kind = "return"
     /\ SpatialTransformTypeOf(attrs) = Unset /\ SpatialRegistrationOf(attrs) = Unset) =>
        (ret.value.transform_type = Str("affine") /\ ret.value.registration = Str("pixel"))

\* C5 as stated: Spatial construction succeeds iff dimensions is non-empty,
\* transform is absent or has 6 elements and registration is pixel or node;
\* omitted transform_type/registration default to affine/pixel; and a
\* transform of any other length ALWAYS fails with an error mentioning
\* "6 coefficients".
C5_Original ==
    /\ C5_SuccessIff
    /\ C5_Defaults
    /\ (pc = "Spatial" /\ WellTypedSpatial(attrs) /\ TransformWrongLength(attrs)) =>
           (ret.kind = "raise" /\ Mentions(ret.errors, MsgTransformLength))

\* C5 amended: as C5, except that a transform of another length always fails
\* and the failure mentions "6 coefficients" whenever dimensions is present
\* and non-empty (an empty or missing dimensions is reported instead).
C5_Amended ==
    /\ C5_SuccessIff
    /\ C5_Defaults
    /\ (pc = "Spatial" /\ WellTypedSpatial(attrs) /\ TransformWrongLength(attrs)) =>
           /\ ret.kind = "raise"
           /\ DimensionsNonEmpty(attrs) => Mentions(ret.errors, MsgTransformLength)
           /\ ~DimensionsNonEmpty(attrs) => ~Mentions(ret.errors, MsgTransformLength)

\* A 7-element transform with valid dimensions was refused for its length.
C5_Witness ==
    /\ pc = "Spatial"
    /\ WellTypedSpatial(attrs)
    /\ DimensionsNonEmpty(attrs)
    /\ ~TransformAbsent(attrs) /\ Len(SpatialTransformOf(attrs).v) = 7
    /\ ret.kind = "raise"
    /\ Mentions(ret.errors, MsgTransformLength)

(***************************************************************************)
(* conventions/proj.py                                                     *)
(***************************************************************************)
PROJ_UUID == "f17cb550-5864-4468-aeb7-f3180cfb622f"

MsgCodePattern == "Value error, proj:code must match pattern AUTHORITY:CODE (e.g. 'EPSG:4326'), got '{v}'"
MsgAtLeastOne == "Value error, At least one of proj:code, proj:wkt2, or proj:projjson must be provided"
MsgNotResolved == "Value error, proj:code '{self.code}' does not resolve to a known CRS"

UpperCase == {"E", "P", "S", "G"}
Digits == {"4"}
Alphabet == {"E", "4", ":", "e", "\n"}

\* Index of the first ":" of cs, or 0.
FirstColon(cs) ==
    IF \E i \in DOMAIN cs : cs[i] = ":"
    THEN CHOOSE i \in DOMAIN cs : cs[i] = ":" /\ \A j \in 1..(i - 1) : cs[j] # ":"
    ELSE 0

\* _CODE_PATTERN.match(cs) for ^[A-Z]+:[0-9]+$ ; "$" also matches just before
\* a newline that ends the string.
CodePatternMatches(cs) ==
    LET ends == IF Len(cs) > 0 /\ cs[Len(cs)] = "\n"
                THEN {Len(cs), Len(cs) - 1}
                ELSE {Len(cs)}
    IN  \E end \in ends :
            \E colon \in 2..(end - 1) :
                /\ cs[colon] = ":"
                /\ \A i \in 1..(colon - 1) : cs[i] \in UpperCase
                /\ \A i \in (colon + 1)..end : cs[i] \in Digits

\* A pattern reduced to "has a colon": any characters may surround it.
validate_code_format_lax(v) ==
    IF v \notin {Unset, Null} /\ IsStr(v) /\ FirstColon(v.chars) = 0
    THEN <<Err("proj:code", MsgCodePattern, v)>>
    ELSE <<>>

\* The field validator of code: the error it raises, if any.
validate_code_format(v) ==
    IF v \notin {Unset, Null} /\ IsStr(v) /\ ~CodePatternMatches(v.chars)
    THEN <<Err("proj:code", MsgCodePattern, v)>>
    ELSE <<>>

ProjFieldErrors(data) ==
    LET code == FieldValue(data, "proj:code", "code")
        wkt2 == FieldValue(data, "proj:wkt2", "wkt2")
        projjson == FieldValue(data, "proj:projjson", "projjson")
    IN  When(code \notin {Unset, Null} /\ ~IsStr(code),
             Err("proj:code", MsgNotAString, Null))
        \o validate_code_format(code)
        \o When(wkt2 \notin {Unset, Null} /\ ~IsStr(wkt2),
                Err("proj:wkt2", MsgNotAString, Null))
        \o When(projjson \notin {Unset, Null} /\ ~IsDict(projjson),
                Err("proj:projjson", MsgNotADict, Null))

ProjRecord(data) ==
    LET orNone(v) == IF v = Unset THEN Null ELSE v
        used == UsedKey(data, "proj:code", "code")
                \cup UsedKey(data, "proj:wkt2", "wkt2")
                \cup UsedKey(data, "proj:projjson", "projjson")
    IN  [code |-> orNone(FieldValue(data, "proj:code", "code")),
         wkt2 |-> orNone(FieldValue(data, "proj:wkt2", "wkt2")),
         projjson |-> orNone(FieldValue(data, "proj:projjson", "projjson")),
         extra |-> DOMAIN data \ used]

\* The test of "provided" as a test of None: an empty string counts.
validate_at_least_one_crs_not_none(self) ==
    [fails |-> self.code = Null /\ self.wkt2 = Null /\ self.projjson = Null,
     err |-> Err("", MsgAtLeastOne, Null)]

validate_at_least_one_crs(self) ==
    [fails |-> ~(Truthy(self.code) \/ Truthy(self.wkt2) \/ Truthy(self.projjson)),
     err |-> Err("", MsgAtLeastOne, Null)]

\* self.code.split(":", 1)
SplitCode(cs) ==
    LET colon == FirstColon(cs)
    IN  IF colon = 0 THEN <<cs>>
        ELSE <<SubSeq(cs, 1, colon - 1), SubSeq(cs, colon + 1, Len(cs))>>

Lookup(authority, code) == [ev |-> "lookup", authority |-> authority, code |-> code]

\* What validate_code_resolves does to the CRS authority: nothing without a
\* code, nothing when pyproj cannot be imported, nothing when the split does
\* not give two arguments, else one lookup.
CodeLookups(self, crs) ==
    IF self.code = Null \/ ~crs.installed THEN <<>>
    ELSE LET parts == SplitCode(self.code.chars)
         IN  IF Len(parts) = 2 THEN <<Lookup(parts[1], parts[2])>> ELSE <<>>

\* The lookup swallowed: an unresolved code is let through.
validate_code_resolves_unchecked(self, crs) ==
    [fails |-> FALSE, err |-> Err("", MsgNotResolved, self.code)]

\* Only the lookup is guarded: a failing import lets the code through.
validate_code_resolves_import_unguarded(self, crs) ==
    [fails |-> /\ self.code # Null
               /\ crs.installed
               /\ \/ crs.raises
                  \/ Len(SplitCode(self.code.chars)) # 2
                  \/ <<SplitCode(self.code.chars)[1], SplitCode(self.code.chars)[2]>>
                         \notin crs.registered,
     err |-> Err("", MsgNotResolved, self.code)]

\* Any exception of the import or of the lookup becomes the ValueError.
validate_code_resolves(self, crs) ==
    [fails |-> /\ self.code # Null
               /\ \/ ~crs.installed
                  \/ crs.raises
                  \/ Len(SplitCode(self.code.chars)) # 2
                  \/ <<SplitCode(self.code.chars)[1], SplitCode(self.code.chars)[2]>>
                         \notin crs.registered,
     err |-> Err("", MsgNotResolved, self.code)]

\* Proj(**data) against the CRS authority crs: the outcome and the lookups made.
Proj(data, crs) ==
    LET fieldErrors == ProjFieldErrors(data)
        self == ProjRecord(data)
        atLeastOne == validate_at_least_one_crs(self)
        resolves == validate_code_resolves(self, crs)
    IN  IF fieldErrors # <<>> THEN [out |-> Invalid(fieldErrors), lookups |-> <<>>]
        ELSE IF atLeastOne.fails
             THEN [out |-> Invalid(<<atLeastOne.err>>), lookups |-> <<>>]
        ELSE IF resolves.fails
             THEN [out |-> Invalid(<<resolves.err>>), lookups |-> CodeLookups(self, crs)]
        ELSE [out |-> Ok(self), lookups |-> CodeLookups(self, crs)]

validate_proj(a, crs) ==
    LET r == Proj(a, crs).out
    IN  IF r.ok THEN Returned(Pair(TRUE, <<>>)) ELSE Returned(Pair(FALSE, r.errors))

(***************************************************************************)
(* Arguments the Proj operations are exercised on.                         *)
(***************************************************************************)
MaxCodeLen == 3

RECURSIVE CharSeqs(_)
CharSeqs(n) ==
    IF n = 0 THEN {<<>>}
    ELSE CharSeqs(n - 1)
         \cup {Append(cs, c) : cs \in {x \in CharSeqs(n - 1) : Len(x) = n - 1}, c \in Alphabet}

ProjCodeValues == {Null} \cup {Chars(cs) : cs \in CharSeqs(MaxCodeLen)}

ProjAttrs ==
    Merge(Opt("proj:code", ProjCodeValues),
    Merge(Opt("proj:wkt2", {Null, Str(""), Str("WKT")}),
          Opt("proj:projjson", {Dict(EmptyMap), Dict("type" :> Str("GeographicCRS"))})))

\* The CRS authority: pyproj missing, or installed with E:4 registered or
\* not, or installed with a lookup that raises some other exception.
PyprojStates ==
    {NoPyproj,
     [installed |-> TRUE, registered |-> {}, raises |-> FALSE],
     [installed |-> TRUE, registered |-> {<<<<"E">>, <<"4">>>>}, raises |-> FALSE],
     [installed |-> TRUE, registered |-> {<<<<"E">>, <<"4">>>>}, raises |-> TRUE]}

InitProj ==
    /\ attrs \in ProjAttrs
    /\ conventions = NoneArg
    /\ members = {}
    /\ request = NoRequest
    /\ store = NoStore
    /\ pyproj \in PyprojStates
    /\ pc = "start"
    /\ ret = NoReturn
    /\ trace = <<>>

\* Proj(**attrs)
ConstructProj ==
    /\ pc = "start"
    /\ pc' = "Proj"
    /\ ret' = (LET r == Proj(attrs, pyproj).out
               IN  IF r.ok THEN Returned(r.rec) ELSE Raised("ValidationError", r.errors))
    /\ trace' = <<Construct("Proj")>> \o Proj(attrs, pyproj).lookups
    /\ UNCHANGED <<attrs, conventions, members, pyproj, request, store>>

\* validate_proj(attrs)
CallValidateProj ==
    /\ pc = "start"
    /\ pc' = "validate_proj"
    /\ ret' = validate_proj(attrs, pyproj)
    /\ trace' = <<Construct("Proj")>> \o Proj(attrs, pyproj).lookups
    /\ UNCHANGED <<attrs, conventions, members, pyproj, request, store>>

NextProj == ConstructProj \/ CallValidateProj

SpecProj == InitProj /\ [][NextProj]_vars

(***************************************************************************)
(* Claims about Proj construction, under SpecProj.                         *)
(***************************************************************************)
ProjCodeOf(a) == FieldValue(a, "proj:code", "code")
ProjWkt2Of(a) == FieldValue(a, "proj:wkt2", "wkt2")
ProjProjjsonOf(a) == FieldValue(a, "proj:projjson", "projjson")

CodeAbsent(a) == ProjCodeOf(a) \in {Unset, Null}
NonNull(v) == v \notin {Unset, Null}

\* C6 as stated: with code absent, Proj construction succeeds iff at least
\* one of wkt2 and projjson is non-null; with all three absent it fails with
\* an error mentioning "at least one".
C6_Claim ==
    (pc = "Proj" /\ CodeAbsent(attrs)) =>
        /\ (ret.kind = "return") <=>
               (NonNull(ProjWkt2Of(attrs)) \/ NonNull(ProjProjjsonOf(attrs)))
        /\ (~NonNull(ProjWkt2Of(attrs)) /\ ~NonNull(ProjProjjsonOf(attrs))) =>
               (ret.kind = "raise" /\ Mentions(ret.errors, MsgAtLeastOne))

\* What the code does instead: the test is one of truthiness, so an empty
\* wkt2 string or an empty projjson mapping counts as not provided.
C6_CodeBehaviour ==
    (pc = "Proj" /\ CodeAbsent(attrs)) =>
        /\ (ret.kind = "return") <=>
               (Truthy(ProjWkt2Of(attrs)) \/ Truthy(ProjProjjsonOf(attrs)))
        /\ (ret.kind = "raise") => Mentions(ret.errors, MsgAtLeastOne)

\* An empty wkt2, nothing else: refused as if nothing had been provided.
C6_Witness ==
    /\ pc = "Proj"
    /\ DOMAIN attrs = {"proj:wkt2"}
    /\ attrs["proj:wkt2"] = Str("")
    /\ ret.kind = "raise"
    /\ Mentions(ret.errors, MsgAtLeastOne)

CodePresent(a) == NonNull(ProjCodeOf(a))
LookupsOf(tr) == {tr[i] : i \in {j \in DOMAIN tr : tr[j].ev = "lookup"}}

\* The lookup of a code split on its first ":" succeeds.
Resolves(cs, crs) ==
    /\ crs.installed
    /\ ~crs.raises
    /\ \E colon \in DOMAIN cs :
           /\ cs[colon] = ":"
           /\ \A j \in 1..(colon - 1) : cs[j] # ":"
           /\ <<SubSeq(cs, 1, colon - 1), SubSeq(cs, colon + 1, Len(cs))>>
                  \in crs.registered

\* C7: with proj:code present (a non-null string), construction succeeds only
\* if the code matches ^[A-Z]+:[0-9]+$ and its lookup succeeds; a lookup is
\* made only after the pattern has passed; a code failing the pattern is
\* refused with the AUTHORITY:CODE error naming the value and without any
\* lookup; a well-formed code whose lookup fails is refused with the
\* "does not resolve" error naming the code.
C7_CodeChecks ==
    (pc = "Proj" /\ CodePresent(attrs)) =>
        LET cs == ProjCodeOf(attrs).chars
        IN  /\ (ret.kind = "return") =>
                   (CodePatternMatches(cs) /\ Resolves(cs, pyproj))
            /\ (LookupsOf(trace) # {}) => CodePatternMatches(cs)
            /\ ~CodePatternMatches(cs) =>
                   /\ ret.kind = "raise"
                   /\ \E i \in DOMAIN ret.errors :
                          ret.errors[i] = Err("proj:code", MsgCodePattern, ProjCodeOf(attrs))
                   /\ LookupsOf(trace) = {}
            /\ (CodePatternMatches(cs) /\ ~Resolves(cs, pyproj)) =>
                   /\ ret.kind = "raise"
                   /\ \E i \in DOMAIN ret.errors :
                          ret.errors[i] = Err("", MsgNotResolved, ProjCodeOf(attrs))

\* A well-formed code was looked up, was not registered, and was refused.
C7_Witness ==
    /\ pc = "Proj"
    /\ CodePresent(attrs)
    /\ CodePatternMatches(ProjCodeOf(attrs).chars)
    /\ pyproj.installed
    /\ LookupsOf(trace) = {Lookup(<<"E">>, <<"4">>)}
    /\ ret.kind = "raise"
    /\ Mentions(ret.errors, MsgNotResolved)

(***************************************************************************)
(* conventions/multiscales.py                                              *)
(***************************************************************************)
MULTISCALES_UUID == "d35379db-88df-4056-af3a-620245f8e347"

MsgNotATuple == "Input should be a valid tuple"
MsgNotAModel == "Input should be a valid dictionary or instance of the model"
MsgLayoutEmpty == "Value error, multiscales layout must have at least one level"

\* A field declared T | MISSING with no alias: the key's value or the
\* sentinel.  None is not MISSING: it is validated against T and refused.
Field(data, name) == IF name \in DOMAIN data THEN data[name] ELSE Unset

\* Transform(**t), the errors of level at (i is the 0-based index of the level).
TransformErrors(t, i) ==
    When(Field(t, "scale") # Unset /\ ~IsListOf(Field(t, "scale"), "num"),
         Err("layout.transform.scale", MsgNotATuple, Num(i)))
    \o When(Field(t, "translation") # Unset /\ ~IsListOf(Field(t, "translation"), "num"),
            Err("layout.transform.translation", MsgNotATuple, Num(i)))

\* ScaleLevel: the errors of the level at 0-based index i of the layout.
ScaleLevelErrors(level, i) ==
    IF ~IsDict(level) THEN <<Err("layout", MsgNotAModel, Num(i))>>
    ELSE LET asset == Field(level.v, "asset")
             derived_from == Field(level.v, "derived_from")
             transform == Field(level.v, "transform")
             resampling_method == Field(level.v, "resampling_method")
         IN  When(asset = Unset, Err("layout.asset", MsgFieldRequired, Num(i)))
             \o When(asset # Unset /\ ~IsStr(asset),
                     Err("layout.asset", MsgNotAString, Num(i)))
             \o When(derived_from # Unset /\ ~IsStr(derived_from),
                     Err("layout.derived_from", MsgNotAString, Num(i)))
             \o (IF transform = Unset THEN <<>>
                 ELSE IF ~IsDict(transform)
                      THEN <<Err("layout.transform", MsgNotAModel, Num(i))>>
                 ELSE TransformErrors(transform.v, i))
             \o When(resampling_method # Unset /\ ~IsStr(resampling_method),
                     Err("layout.resampling_method", MsgNotAString, Num(i)))

RECURSIVE LevelsErrors(_, _)
LevelsErrors(levels, i) ==
    IF levels = <<>> THEN <<>>
    ELSE ScaleLevelErrors(Head(levels), i) \o LevelsErrors(Tail(levels), i + 1)

\* The emptiness test dropped: a layout of no levels is let through.
validate_layout_not_empty_skipped(value) == <<>>

\* The mode="after" field validator of layout.
validate_layout_not_empty(value) ==
    IF Len(value) = 0 THEN <<Err("layout", MsgLayoutEmpty, Null)>> ELSE <<>>

\* The errors of the layout field: its type, its levels, then its validator.
LayoutErrors(layout) ==
    IF layout = Unset THEN <<Err("layout", MsgFieldRequired, Null)>>
    ELSE IF layout.t # "list" THEN <<Err("layout", MsgNotATuple, Null)>>
    ELSE IF LevelsErrors(layout.v, 0) # <<>> THEN LevelsErrors(layout.v, 0)
    ELSE validate_layout_not_empty(layout.v)

\* Multiscales(**data)
Multiscales(data) ==
    LET layout == Field(data, "layout")
        resampling_method == Field(data, "resampling_method")
        errors == LayoutErrors(layout)
                  \o When(resampling_method # Unset /\ ~IsStr(resampling_method),
                          Err("resampling_method", MsgNotAString, Null))
    IN  IF errors # <<>> THEN Invalid(errors)
        ELSE Ok([layout |-> layout, resampling_method |-> resampling_method,
                 extra |-> DOMAIN data \ {"layout", "resampling_method"}])

MsgMissingMultiscales == "Missing 'multiscales' key in attributes"

\* The membership test dropped: the value is read whether or not it is there.
validate_multiscales_unguarded(a) ==
    LET r == Multiscales(Get(a, "multiscales").v)
    IN  IF ~IsDict(Get(a, "multiscales")) THEN Raised("TypeError", <<>>)
        ELSE IF r.ok THEN Returned(Pair(TRUE, <<>>))
        ELSE Returned(Pair(FALSE, r.errors))

\* validate_multiscales(attrs); ** of a value that is no mapping is a TypeError,
\* which the except clause does not catch.
validate_multiscales(a) ==
    IF "multiscales" \notin DOMAIN a
    THEN Returned(Pair(FALSE, <<Err("", MsgMissingMultiscales, Null)>>))
    ELSE IF ~IsDict(a["multiscales"]) THEN Raised("TypeError", <<>>)
    ELSE LET r == Multiscales(a["multiscales"].v)
         IN  IF r.ok THEN Returned(Pair(TRUE, <<>>)) ELSE Returned(Pair(FALSE, r.errors))

\* The Multiscales constructions validate_multiscales attempts.
MultiscalesConstructions(a) ==
    IF "multiscales" \in DOMAIN a /\ IsDict(a["multiscales"])
    THEN <<Construct("Multiscales")>>
    ELSE <<>>

(***************************************************************************)
(* Arguments the Multiscales operations are exercised on.                  *)
(***************************************************************************)
MaxLevels == 2

Level(m) == Dict(m)

ScaleLevelValues ==
    {Level("asset" :> Str("0")),
     Level("asset" :> Str("")),
     Level(("asset" :> Str("1")) @@ ("derived_from" :> Str("0"))),
     Level(("asset" :> Str("1")) @@ ("derived_from" :> Str("9"))),
     Level(("asset" :> Str("1")) @@ ("derived_from" :> Str("0"))
           @@ ("transform" :> Dict("scale" :> List("num", <<2, 2>>)))),
     Level(("asset" :> Str("1")) @@ ("derived_from" :> Null)),
     Level("asset" :> Num(0)),
     Level("derived_from" :> Str("0")),
     Str("0")}

RECURSIVE SeqsUpTo(_, _)
SeqsUpTo(S, n) ==
    IF n = 0 THEN {<<>>}
    ELSE SeqsUpTo(S, n - 1)
         \cup {Append(q, x) : q \in {y \in SeqsUpTo(S, n - 1) : Len(y) = n - 1}, x \in S}

LayoutValues == {Null} \cup {List("dict", q) : q \in SeqsUpTo(ScaleLevelValues, MaxLevels)}

MultiscalesValues ==
    {Null, Str("layout"), List("dict", <<>>)}
    \cup {Dict(m) : m \in Merge(Opt("layout", LayoutValues),
                                Opt("resampling_method", {Str("average"), Null}))}

MultiscalesKeyValues == Opt("multiscales", MultiscalesValues)

InitMultiscales ==
    /\ attrs \in MultiscalesKeyValues
    /\ conventions = NoneArg
    /\ members = {}
    /\ request = NoRequest
    /\ store = NoStore
    /\ pyproj = NoPyproj
    /\ pc = "start"
    /\ ret = NoReturn
    /\ trace = <<>>

\* Multiscales(**attrs["multiscales"]) on a mapping value
ConstructMultiscales ==
    /\ pc = "start"
    /\ "multiscales" \in DOMAIN attrs
    /\ IsDict(attrs["multiscales"])
    /\ pc' = "Multiscales"
    /\ ret' = (LET r == Multiscales(attrs["multiscales"].v)
               IN  IF r.ok THEN Returned(r.rec) ELSE Raised("ValidationError", r.errors))
    /\ trace' = <<Construct("Multiscales")>>
    /\ UNCHANGED <<attrs, conventions, members, pyproj, request, store>>

\* validate_multiscales(attrs)
CallValidateMultiscales ==
    /\ pc = "start"
    /\ pc' = "validate_multiscales"
    /\ ret' = validate_multiscales(attrs)
    /\ trace' = MultiscalesConstructions(attrs)
    /\ UNCHANGED <<attrs, conventions, members, pyproj, request, store>>

NextMultiscales == ConstructMultiscales \/ CallValidateMultiscales

SpecMultiscales == InitMultiscales /\ [][NextMultiscales]_vars

(***************************************************************************)
(* Claims about Multiscales, under SpecMultiscales.                        *)
(***************************************************************************)
LayoutOf(a) == Field(a["multiscales"].v, "layout")
IsLayoutList(a) == LayoutOf(a) # Unset /\ LayoutOf(a).t = "list"
TopLevelWellTyped(a) ==
    Field(a["multiscales"].v, "resampling_method") = Unset
    \/ IsStr(Field(a["multiscales"].v, "resampling_method"))

CarriesStringAsset(level) ==
    IsDict(level) /\ "asset" \in DOMAIN level.v /\ level.v["asset"].t = "str"

\* The optional fields of a level are absent or of their declared type.
OptionalsWellTyped(level) ==
    /\ \A k \in {"derived_from", "resampling_method"} \cap DOMAIN level.v :
           level.v[k].t = "str"
    /\ "transform" \in DOMAIN level.v =>
           /\ level.v["transform"].t = "dict"
           /\ \A k \in {"scale", "translation"} \cap DOMAIN level.v["transform"].v :
                  level.v["transform"].v[k].t = "list"

C8_EmptyLayoutFails ==
    (pc = "Multiscales" /\ IsLayoutList(attrs) /\ Len(LayoutOf(attrs).v) = 0) =>
        (ret.kind = "raise" /\ Mentions(ret.errors, MsgLayoutEmpty))

C8_MissingKey ==
    (pc = "validate_multiscales" /\ "multiscales" \notin DOMAIN attrs) =>
        /\ ret = Returned(Pair(FALSE, <<Err("", MsgMissingMultiscales, Null)>>))
        /\ \A i \in DOMAIN trace : trace[i].ev # "construct"

\* C8 as stated: an empty layout fails mentioning "at least one level"; EVERY
\* non-empty layout of levels that each carry a string asset succeeds; and
\* validate_multiscales reports the missing key without constructing a record.
C8_Original ==
    /\ C8_EmptyLayoutFails
    /\ C8_MissingKey
    /\ (pc = "Multiscales" /\ TopLevelWellTyped(attrs) /\ IsLayoutList(attrs)
        /\ Len(LayoutOf(attrs).v) > 0
        /\ \A i \in DOMAIN LayoutOf(attrs).v : CarriesStringAsset(LayoutOf(attrs).v[i])) =>
           ret.kind = "return"

\* C8 amended: as C8, with success promised for the non-empty layouts whose
\* levels carry a string asset and whose optional fields (derived_from,
\* transform, resampling_method) are absent or of their declared type; a
\* level with a null optional field is refused.
C8_Amended ==
    /\ C8_EmptyLayoutFails
    /\ C8_MissingKey
    /\ (pc = "Multiscales" /\ TopLevelWellTyped(attrs) /\ IsLayoutList(attrs)
        /\ Len(LayoutOf(attrs).v) > 0
        /\ \A i \in DOMAIN LayoutOf(attrs).v : CarriesStringAsset(LayoutOf(attrs).v[i])) =>
           ((ret.kind = "return") <=>
                \A i \in DOMAIN LayoutOf(attrs).v : OptionalsWellTyped(LayoutOf(attrs).v[i]))

\* An empty layout was refused for having no level.
C8_Witness ==
    /\ pc = "Multiscales"
    /\ IsLayoutList(attrs)
    /\ Len(LayoutOf(attrs).v) = 0
    /\ ret.kind = "raise"
    /\ Mentions(ret.errors, MsgLayoutEmpty)

(***************************************************************************)
(* conventions/common.py and the three canonical identity records.         *)
(***************************************************************************)
SPATIAL_SCHEMA_URL == "https://raw.githubusercontent.com/zarr-conventions/spatial/refs/tags/v1/schema.json"
SPATIAL_SPEC_URL == "https://github.com/zarr-conventions/spatial/blob/v1/README.md"
PROJ_SCHEMA_URL == "https://raw.githubusercontent.com/zarr-experimental/geo-proj/refs/tags/v1/schema.json"
PROJ_SPEC_URL == "https://github.com/zarr-experimental/geo-proj/blob/v1/README.md"
MULTISCALES_SCHEMA_URL == "https://raw.githubusercontent.com/zarr-conventions/multiscales/refs/tags/v1/schema.json"
MULTISCALES_SPEC_URL == "https://github.com/zarr-conventions/multiscales/blob/v1/README.md"

MsgExtraForbidden == "Extra inputs are not permitted"
MsgLiteral == "Input should be the literal of the field"
MsgNotIdentifiable == "Value error, At least one of uuid, schema_url, or spec_url must be provided."

IdentityFields == <<"uuid", "schema_url", "spec_url", "name", "description">>
IdentityFieldNames == {IdentityFields[i] : i \in DOMAIN IdentityFields}

\* The field declarations of each identity class: the defaults, and the
\* fields narrowed to a Literal.
ZarrConventionMetadataClass ==
    [defaults |-> [uuid |-> Unset, schema_url |-> Unset, spec_url |-> Unset,
                   name |-> Unset, description |-> Unset],
     literals |-> {}]

SpatialConventionMetadataClass ==
    [defaults |-> [uuid |-> Str(SPATIAL_UUID), schema_url |-> Str(SPATIAL_SCHEMA_URL),
                   spec_url |-> Str(SPATIAL_SPEC_URL), name |-> Str("spatial:"),
                   description |-> Str("Spatial coordinate and transformation information")],
     literals |-> {"uuid", "name"}]

ProjConventionMetadataClass ==
    [defaults |-> [uuid |-> Str(PROJ_UUID), schema_url |-> Str(PROJ_SCHEMA_URL),
                   spec_url |-> Str(PROJ_SPEC_URL), name |-> Str("proj:"),
                   description |->
                       Str("Coordinate reference system information for geospatial data")],
     literals |-> {"uuid", "name"}]

MultiscalesConventionMetadataClass ==
    [defaults |-> [uuid |-> Str(MULTISCALES_UUID), schema_url |-> Str(MULTISCALES_SCHEMA_URL),
                   spec_url |-> Str(MULTISCALES_SPEC_URL), name |-> Str("multiscales"),
                   description |-> Str("Multiscale layout of zarr datasets")],
     literals |-> {"uuid", "name"}]

\* The keys of S, one after another (a dict's keys in some fixed order).
RECURSIVE KeySeq(_)
KeySeq(S) ==
    IF S = {} THEN <<>>
    ELSE LET k == CHOOSE x \in S : TRUE IN <<k>> \o KeySeq(S \ {k})

RECURSIVE IdentityFieldErrors(_, _, _)
IdentityFieldErrors(cls, data, i) ==
    IF i > Len(IdentityFields) THEN <<>>
    ELSE LET name == IdentityFields[i]
             v == Field(data, name)
         IN  When(v # Unset /\ name \notin cls.literals /\ ~IsStr(v),
                  Err(name, MsgNotAString, Null))
             \o When(v # Unset /\ name \in cls.literals /\ v # cls.defaults[name],
                     Err(name, MsgLiteral, Null))
             \o IdentityFieldErrors(cls, data, i + 1)

\* extra = forbid: one error per key that is no field.
ExtraErrors(data) ==
    LET keys == KeySeq(DOMAIN data \ IdentityFieldNames)
    IN  [i \in DOMAIN keys |-> Err(keys[i], MsgExtraForbidden, Null)]

IdentityRecord(cls, data) ==
    [name \in IdentityFieldNames |->
        IF name \in DOMAIN data THEN data[name] ELSE cls.defaults[name]]

\* Only the uuid is looked at.
ensure_identifiable_uuid_only(self) ==
    [fails |-> self["uuid"] = Unset, err |-> Err("", MsgNotIdentifiable, Null)]

ensure_identifiable(self) ==
    [fails |-> self["uuid"] = Unset /\ self["schema_url"] = Unset /\ self["spec_url"] = Unset,
     err |-> Err("", MsgNotIdentifiable, Null)]

\* cls(**data) for ZarrConventionMetadata and its subclasses.
ConventionMetadata(cls, data) ==
    LET fieldErrors == IdentityFieldErrors(cls, data, 1) \o ExtraErrors(data)
        self == IdentityRecord(cls, data)
        modelErrors == FirstFailure(<<ensure_identifiable(self)>>)
    IN  IF fieldErrors # <<>> THEN Invalid(fieldErrors)
        ELSE IF modelErrors # <<>> THEN Invalid(modelErrors)
        ELSE Ok(self)

ZarrConventionMetadata(data) == ConventionMetadata(ZarrConventionMetadataClass, data)
SpatialConventionMetadata(data) == ConventionMetadata(SpatialConventionMetadataClass, data)
ProjConventionMetadata(data) == ConventionMetadata(ProjConventionMetadataClass, data)
MultiscalesConventionMetadata(data) ==
    ConventionMetadata(MultiscalesConventionMetadataClass, data)

(***************************************************************************)
(* Arguments the identity records are constructed from.                    *)
(***************************************************************************)
IdentityAttrs ==
    Merge(Opt("uuid", {Null, Str(""), Str(SPATIAL_UUID), Str(PROJ_UUID),
                       Str(MULTISCALES_UUID), Str("other-uuid")}),
    Merge(Opt("schema_url", {Null, Str("https://example.org/schema.json")}),
    Merge(Opt("spec_url", {Str("https://example.org/README.md")}),
    Merge(Opt("name", {Null, Str("spatial:"), Str("proj:"), Str("multiscales"),
                       Str("custom")}),
          Opt("version", {Str("1")})))))

InitIdentity ==
    /\ attrs \in IdentityAttrs
    /\ conventions = NoneArg
    /\ members = {}
    /\ request = NoRequest
    /\ store = NoStore
    /\ pyproj = NoPyproj
    /\ pc = "start"
    /\ ret = NoReturn
    /\ trace = <<>>

Constructed(r) == IF r.ok THEN Returned(r.rec) ELSE Raised("ValidationError", r.errors)

\* ZarrConventionMetadata(**attrs)
ConstructZarrConventionMetadata ==
    /\ pc = "start"
    /\ pc' = "ZarrConventionMetadata"
    /\ ret' = Constructed(ZarrConventionMetadata(attrs))
    /\ trace' = <<Construct("ZarrConventionMetadata")>>
    /\ UNCHANGED <<attrs, conventions, members, pyproj, request, store>>

\* SpatialConventionMetadata(**attrs)
ConstructSpatialConventionMetadata ==
    /\ pc = "start"
    /\ pc' = "SpatialConventionMetadata"
    /\ ret' = Constructed(SpatialConventionMetadata(attrs))
    /\ trace' = <<Construct("SpatialConventionMetadata")>>
    /\ UNCHANGED <<attrs, conventions, members, pyproj, request, store>>

\* ProjConventionMetadata(**attrs)
ConstructProjConventionMetadata ==
    /\ pc = "start"
    /\ pc' = "ProjConventionMetadata"
    /\ ret' = Constructed(ProjConventionMetadata(attrs))
    /\ trace' = <<Construct("ProjConventionMetadata")>>
    /\ UNCHANGED <<attrs, conventions, members, pyproj, request, store>>

\* MultiscalesConventionMetadata(**attrs)
ConstructMultiscalesConventionMetadata ==
    /\ pc = "start"
    /\ pc' = "MultiscalesConventionMetadata"
    /\ ret' = Constructed(MultiscalesConventionMetadata(attrs))
    /\ trace' = <<Construct("MultiscalesConventionMetadata")>>
    /\ UNCHANGED <<attrs, conventions, members, pyproj, request, store>>

NextIdentity ==
    \/ ConstructZarrConventionMetadata
    \/ ConstructSpatialConventionMetadata
    \/ ConstructProjConventionMetadata
    \/ ConstructMultiscalesConventionMetadata

SpecIdentity == InitIdentity /\ [][NextIdentity]_vars

(***************************************************************************)
(* Claims about the identity records, under SpecIdentity.                  *)
(***************************************************************************)
IdentifierKeys == {"uuid", "schema_url", "spec_url"}
IsSet(a, k) == k \in DOMAIN a /\ a[k] # Null
NoUnknownKey(a) == DOMAIN a \subseteq IdentityFieldNames

\* The canonical records construct from no arguments with their uuid and name.
C9_Canonical ==
    /\ (pc = "SpatialConventionMetadata" /\ attrs = EmptyMap) =>
           /\ ret.kind = "return"
           /\ ret.value["uuid"] = Str(SPATIAL_UUID) /\ ret.value["name"] = Str("spatial:")
    /\ (pc = "ProjConventionMetadata" /\ attrs = EmptyMap) =>
           /\ ret.kind = "return"
           /\ ret.value["uuid"] = Str(PROJ_UUID) /\ ret.value["name"] = Str("proj:")
    /\ (pc = "MultiscalesConventionMetadata" /\ attrs = EmptyMap) =>
           /\ ret.kind = "return"
           /\ ret.value["uuid"] = Str(MULTISCALES_UUID)
           /\ ret.value["name"] = Str("multiscales")

MsgMissingZarrConventions == "Missing 'zarr_conventions' key in attributes"
MsgZarrConventionsNotList == "zarr_conventions must be a list"
MsgConventionNotDict == "Convention {i} must be a dictionary"
MsgConventionNoId == "Convention {i} must have at least one of: uuid, schema_url, spec_url"

\* any(conv.get(key) for key in ("uuid", "schema_url", "spec_url"))
has_id(conv) ==
    \E key \in {"uuid", "schema_url", "spec_url"} : Truthy(Get(conv.v, key))

\* The entry is counted from one.
ConventionErrors_one_based(conv, i) ==
    IF ~IsDict(conv) THEN <<Err("", MsgConventionNotDict, Num(i + 1))>>
    ELSE When(~has_id(conv), Err("", MsgConventionNoId, Num(i + 1)))

\* The body of the loop for entry i (counted from zero).
ConventionErrors(conv, i) ==
    IF ~IsDict(conv) THEN <<Err("", MsgConventionNotDict, Num(i))>>
    ELSE When(~has_id(conv), Err("", MsgConventionNoId, Num(i)))

\* for i, conv in enumerate(conventions), from position i + 1 of the list on
RECURSIVE EnumerateConventions(_, _)
EnumerateConventions(convs, i) ==
    IF i >= Len(convs) THEN <<>>
    ELSE ConventionErrors(convs[i + 1], i) \o EnumerateConventions(convs, i + 1)

\* The flag is settled before the entries are looked at.
validate_zarr_conventions_flag_first(a) ==
    IF "zarr_conventions" \notin DOMAIN a
    THEN Returned(Pair(FALSE, <<Err("", MsgMissingZarrConventions, Null)>>))
    ELSE IF a["zarr_conventions"].t # "list"
    THEN Returned(Pair(FALSE, <<Err("", MsgZarrConventionsNotList, Null)>>))
    ELSE Returned(Pair(TRUE, EnumerateConventions(a["zarr_conventions"].v, 0)))

validate_zarr_conventions(a) ==
    IF "zarr_conventions" \notin DOMAIN a
    THEN Returned(Pair(FALSE, <<Err("", MsgMissingZarrConventions, Null)>>))
    ELSE IF a["zarr_conventions"].t # "list"
    THEN Returned(Pair(FALSE, <<Err("", MsgZarrConventionsNotList, Null)>>))
    ELSE LET errors == EnumerateConventions(a["zarr_conventions"].v, 0)
         IN  Returned(Pair(Len(errors) = 0, errors))

\* The attribute keys for which key.startswith("proj:") holds.
ProjPrefixedKeys == {"proj:code", "proj:wkt2", "proj:projjson", "proj:other"}
StartsWithProj(key) == key \in ProjPrefixedKeys

In(x, list) == \E i \in DOMAIN list : list[i] = x

\* The names are appended without looking at what was detected already.
DetectEntry_unguarded(detected, conv) ==
    IF ~IsDict(conv) THEN detected
    ELSE LET uuid == Get(conv.v, "uuid")
             name == Get(conv.v, "name")
         IN  detected
             \o When(uuid = Str(SPATIAL_UUID) \/ name = Str("spatial:"), "spatial")
             \o When(uuid = Str(PROJ_UUID) \/ name = Str("proj:"), "proj")
             \o When(uuid = Str(MULTISCALES_UUID) \/ name = Str("multiscales"),
                     "multiscales")

\* The body of the loop over attrs["zarr_conventions"].
DetectEntry(detected, conv) ==
    IF ~IsDict(conv) THEN detected
    ELSE LET uuid == Get(conv.v, "uuid")
             name == Get(conv.v, "name")
             d1 == detected
                   \o When((uuid = Str(SPATIAL_UUID) \/ name = Str("spatial:"))
                               /\ ~In("spatial", detected),
                           "spatial")
             d2 == d1
                   \o When((uuid = Str(PROJ_UUID) \/ name = Str("proj:"))
                               /\ ~In("proj", d1),
                           "proj")
         IN  d2
             \o When((uuid = Str(MULTISCALES_UUID) \/ name = Str("multiscales"))
                         /\ ~In("multiscales", d2),
                     "multiscales")

RECURSIVE DetectEntries(_, _)
DetectEntries(detected, convs) ==
    IF convs = <<>> THEN detected
    ELSE DetectEntries(DetectEntry(detected, Head(convs)), Tail(convs))

\* What the attribute keys alone detect.
DetectKeys(a) ==
    When("spatial:dimensions" \in DOMAIN a, "spatial")
    \o When(\E key \in DOMAIN a : StartsWithProj(key), "proj")
    \o When("multiscales" \in DOMAIN a, "multiscales")

\* detect_conventions(attrs).  Iterating None or a number is a TypeError; a
\* str yields its characters and a dict its keys, none of them a mapping.
detect_conventions(a) ==
    IF "zarr_conventions" \notin DOMAIN a THEN Returned(DetectKeys(a))
    ELSE LET zc == a["zarr_conventions"]
         IN  IF zc.t \in {"null", "int"} THEN Raised("TypeError", <<>>)
             ELSE IF zc.t = "list" THEN Returned(DetectEntries(DetectKeys(a), zc.v))
             ELSE Returned(DetectKeys(a))

(***************************************************************************)
(* Arguments the registry operations are exercised on.                     *)
(***************************************************************************)
MaxEntries == 2

RegistryEntryValues ==
    {Str("spatial:"), Null, Dict(EmptyMap),
     Dict("uuid" :> Str(SPATIAL_UUID)),
     Dict("uuid" :> Str(PROJ_UUID)),
     Dict("uuid" :> Str(MULTISCALES_UUID)),
     Dict("uuid" :> Str("")),
     Dict("name" :> Str("spatial:")),
     Dict("name" :> Str("proj:")),
     Dict("name" :> Str("multiscales")),
     Dict("name" :> Str("spatial")),
     Dict("schema_url" :> Str("https://example.org/schema.json")),
     Dict(("uuid" :> Null) @@ ("spec_url" :> Str("https://example.org/README.md"))),
     Dict(("uuid" :> Str("other-uuid")) @@ ("name" :> Str("proj:")))}

ZarrConventionsValues ==
    {Null, Num(1), Str("spatial:"), Dict("uuid" :> Str(SPATIAL_UUID))}
    \cup {List("dict", q) : q \in SeqsUpTo(RegistryEntryValues, MaxEntries)}

RegistryAttrs ==
    Merge(Opt("spatial:dimensions", {List("str", <<"Y", "X">>)}),
    Merge(Opt("dimensions", {List("str", <<"Y", "X">>)}),
    Merge(Opt("proj:code", {Chars(<<"E", ":", "4">>)}),
    Merge(Opt("proj:other", {Null}),
    Merge(Opt("projection", {Str("EPSG:4326")}),
    Merge(Opt("multiscales", {Null}),
          Opt("zarr_conventions", ZarrConventionsValues)))))))

InitRegistry ==
    /\ attrs \in RegistryAttrs
    /\ conventions = NoneArg
    /\ members = {}
    /\ request = NoRequest
    /\ store = NoStore
    /\ pyproj = NoPyproj
    /\ pc = "start"
    /\ ret = NoReturn
    /\ trace = <<>>

\* detect_conventions(attrs)
CallDetectConventions ==
    /\ pc = "start"
    /\ pc' = "detect_conventions"
    /\ ret' = detect_conventions(attrs)
    /\ UNCHANGED <<attrs, conventions, members, pyproj, request, store, trace>>

\* validate_zarr_conventions(attrs)
CallValidateZarrConventions ==
    /\ pc = "start"
    /\ pc' = "validate_zarr_conventions"
    /\ ret' = validate_zarr_conventions(attrs)
    /\ UNCHANGED <<attrs, conventions, members, pyproj, request, store, trace>>

\* detect_conventions(attrs) a second time on the same mapping; the first
\* list is kept in trace.
CallDetectConventionsAgain ==
    /\ pc = "detect_conventions"
    /\ ret.kind = "return"
    /\ pc' = "detect_conventions_again"
    /\ trace' = <<ret.value>>
    /\ ret' = detect_conventions(attrs)
    /\ UNCHANGED <<attrs, conventions, members, pyproj, request, store>>

NextRegistry ==
    CallDetectConventions \/ CallValidateZarrConventions \/ CallDetectConventionsAgain

SpecRegistry == InitRegistry /\ [][NextRegistry]_vars

(***************************************************************************)
(* Claims about the detector and the registry check, under SpecRegistry.   *)
(***************************************************************************)
RegistryIsList(a) == "zarr_conventions" \in DOMAIN a /\ a["zarr_conventions"].t = "list"
RegistryOf(a) == IF RegistryIsList(a) THEN a["zarr_conventions"].v ELSE <<>>

\* Some mapping entry of the registry declares the uuid or the name.
Declares(a, uuid, name) ==
    \E i \in DOMAIN RegistryOf(a) :
        LET conv == RegistryOf(a)[i]
        IN  /\ conv.t = "dict"
            /\ \/ "uuid" \in DOMAIN conv.v /\ conv.v["uuid"] = Str(uuid)
               \/ "name" \in DOMAIN conv.v /\ conv.v["name"] = Str(name)

NoDuplicates(list) == \A i, j \in DOMAIN list : list[i] = list[j] => i = j

\* C3: when zarr_conventions is absent or a list, detect_conventions returns
\* a duplicate-free list of names among spatial, proj, multiscales, where
\* spatial occurs iff spatial:dimensions is a key or a mapping entry declares
\* the spatial uuid or name, proj iff a key starts with "proj:" or an entry
\* declares the proj uuid or name, multiscales iff multiscales is a key or an
\* entry declares the multiscales uuid or name; entries that are no mappings
\* are skipped without an error.
C3_Detect ==
    (pc = "detect_conventions"
        /\ ("zarr_conventions" \in DOMAIN attrs => RegistryIsList(attrs))) =>
        /\ ret.kind = "return"
        /\ NoDuplicates(ret.value)
        /\ \A i \in DOMAIN ret.value : ret.value[i] \in {"spatial", "proj", "multiscales"}
        /\ In("spatial", ret.value) <=>
               \/ "spatial:dimensions" \in DOMAIN attrs
               \/ Declares(attrs, SPATIAL_UUID, "spatial:")
        /\ In("proj", ret.value) <=>
               \/ \E key \in DOMAIN attrs : key \in ProjPrefixedKeys
               \/ Declares(attrs, PROJ_UUID, "proj:")
        /\ In("multiscales", ret.value) <=>
               \/ "multiscales" \in DOMAIN attrs
               \/ Declares(attrs, MULTISCALES_UUID, "multiscales")

\* The detector met the spatial convention twice (its key and a registry
\* entry), next to an entry that is no mapping, and reported it once.
C3_Witness ==
    /\ pc = "detect_conventions"
    /\ "spatial:dimensions" \in DOMAIN attrs
    /\ Declares(attrs, SPATIAL_UUID, "spatial:")
    /\ \E i \in DOMAIN RegistryOf(attrs) : RegistryOf(attrs)[i].t # "dict"
    /\ ret = Returned(<<"spatial">>)

\* The entry carries none of the three identifiers: each is absent, null or
\* empty.
Lacking(conv) ==
    \A key \in IdentifierKeys :
        key \notin DOMAIN conv.v \/ conv.v[key] \in {Null, Str("")}

IllFormed(conv) == conv.t # "dict" \/ Lacking(conv)

IllFormedMessage(conv) ==
    IF conv.t # "dict" THEN MsgConventionNotDict ELSE MsgConventionNoId

\* C10: when zarr_conventions is a list, validate_zarr_conventions returns
\* exactly one error per ill-formed entry, in entry order, each naming the
\* entry's 0-based index: "must be a dictionary" for an entry that is no
\* mapping, "must have at least one of" for a mapping lacking all three
\* identifiers (absent, null or empty), and nothing for the other entries;
\* a missing key or a value that is no list gives one error and is_valid
\* False.
C10_RegistryErrors ==
    (pc = "validate_zarr_conventions") =>
        /\ ret.kind = "return"
        /\ LET errors == ret.value.errors
               convs == RegistryOf(attrs)
               bad == {i \in DOMAIN convs : IllFormed(convs[i])}
           IN  IF RegistryIsList(attrs)
               THEN /\ Len(errors) = Cardinality(bad)
                    /\ \A i \in bad :
                           In(Err("", IllFormedMessage(convs[i]), Num(i - 1)), errors)
                    /\ \A j, k \in DOMAIN errors :
                           j < k => errors[j].arg.v < errors[k].arg.v
               ELSE Len(errors) = 1 /\ ret.value.is_valid = FALSE

\* A well-formed first entry and a second entry that is no mapping: the one
\* error names index 1.
C10_Witness ==
    /\ pc = "validate_zarr_conventions"
    /\ RegistryIsList(attrs)
    /\ Len(RegistryOf(attrs)) = 2
    /\ ~IllFormed(RegistryOf(attrs)[1])
    /\ RegistryOf(attrs)[2].t # "dict"
    /\ ret = Returned(Pair(FALSE, <<Err("", MsgConventionNotDict, Num(1))>>))

(***************************************************************************)
(* helpers/validation.py: validate_attrs and validate_group.               *)
(***************************************************************************)
Entry(name, errors) == [name |-> name, errors |-> errors]
Keys(results) == {results[i].name : i \in DOMAIN results}
ErrorsOf(results, name) ==
    LET i == CHOOSE j \in DOMAIN results : results[j].name = name IN results[i].errors

\* Every convention is validated, requested or not.
Requested_always(name, convs) == TRUE

\* if "<name>" in conventions
Requested(name, convs) == In(name, convs)

\* The registry is checked only on request.
RegistryPresent_if_requested(a, convs) ==
    "zarr_conventions" \in DOMAIN a /\ In("zarr_conventions", convs)

\* if "zarr_conventions" in attrs
RegistryPresent(a, convs) == "zarr_conventions" \in DOMAIN a

\* The four validation steps on the conventions list convs: each validator
\* that is run adds its error list under its name; an exception escaping
\* validate_multiscales ends the call.
ValidateConventions(a, convs, crs) ==
    IF Requested("multiscales", convs) /\ validate_multiscales(a).kind = "raise"
    THEN validate_multiscales(a)
    ELSE Returned(
             When(Requested("spatial", convs),
                  Entry("spatial", validate_spatial(a).value.errors))
             \o When(Requested("proj", convs),
                     Entry("proj", validate_proj(a, crs).value.errors))
             \o When(Requested("multiscales", convs),
                     Entry("multiscales", validate_multiscales(a).value.errors))
             \o When(RegistryPresent(a, convs),
                     Entry("zarr_conventions", validate_zarr_conventions(a).value.errors)))

\* validate_attrs(attrs, conventions)
validate_attrs(a, convs, crs) ==
    IF convs = NoneArg
    THEN IF detect_conventions(a).kind = "raise" THEN detect_conventions(a)
         ELSE ValidateConventions(a, detect_conventions(a).value, crs)
    ELSE ValidateConventions(a, convs.v, crs)

\* The conventions argument is ignored: detection always runs.
validate_group_always_detects(group, convs, crs) ==
    IF detect_conventions(group.attrs).kind = "raise" THEN detect_conventions(group.attrs)
    ELSE ValidateConventions(group.attrs, detect_conventions(group.attrs).value, crs)

\* A zarr group: its attributes and the names of its child members.
Group(a, m) == [attrs |-> a, members |-> m]

\* validate_group(group, conventions), on attrs = dict(group.attrs)
validate_group(group, convs, crs) ==
    LET a == group.attrs
    IN  IF convs = NoneArg
        THEN IF detect_conventions(a).kind = "raise" THEN detect_conventions(a)
             ELSE ValidateConventions(a, detect_conventions(a).value, crs)
        ELSE ValidateConventions(a, convs.v, crs)

\* The validators a call runs, in order.
Call(fn) == [ev |-> "call", fn |-> fn]

ValidatorCalls(a, convs) ==
    LET list == IF convs = NoneArg THEN detect_conventions(a) ELSE Returned(convs.v)
    IN  IF list.kind = "raise" THEN <<>>
        ELSE When(Requested("spatial", list.value), Call("validate_spatial"))
             \o When(Requested("proj", list.value), Call("validate_proj"))
             \o When(Requested("multiscales", list.value), Call("validate_multiscales"))
             \o When(RegistryPresent(a, list.value)
                         /\ ~(Requested("multiscales", list.value)
                                  /\ validate_multiscales(a).kind = "raise"),
                     Call("validate_zarr_conventions"))

(***************************************************************************)
(* Arguments the engine is exercised on.                                   *)
(***************************************************************************)
EngineSpatialPart ==
    {EmptyMap,
     "spatial:dimensions" :> List("str", <<"Y", "X">>),
     "spatial:dimensions" :> List("str", <<>>),
     "dimensions" :> List("str", <<"Y", "X">>)}

EngineProjPart ==
    {EmptyMap,
     "proj:wkt2" :> Str("WKT"),
     "proj:code" :> Chars(<<"e">>),
     "proj:code" :> Chars(<<"E", ":", "4">>),
     "wkt2" :> Str("WKT")}

EngineMultiscalesPart ==
    {EmptyMap,
     "multiscales" :> Dict("layout" :> List("dict", <<Level("asset" :> Str("0"))>>)),
     "multiscales" :> Dict("layout" :> List("dict", <<>>)),
     "multiscales" :> Null}

EngineRegistryPart ==
    {EmptyMap} \cup
    {"zarr_conventions" :> v :
        v \in {Null, Str("spatial:"), List("dict", <<>>),
               List("dict", <<Dict("uuid" :> Str(SPATIAL_UUID))>>),
               List("dict", <<Dict("name" :> Str("proj:"))>>),
               List("dict", <<Dict("uuid" :> Str(MULTISCALES_UUID))>>),
               List("dict", <<Dict("uuid" :> Str(SPATIAL_UUID)),
                              Dict("uuid" :> Str(PROJ_UUID)),
                              Dict("uuid" :> Str(MULTISCALES_UUID))>>),
               List("dict", <<Str("spatial:"), Dict("name" :> Str("custom"))>>)}}

EngineAttrs ==
    Merge(EngineSpatialPart,
    Merge(EngineProjPart, Merge(EngineMultiscalesPart, EngineRegistryPart)))

\* The conventions argument: omitted, or a list of names.
ConventionsValues ==
    {NoneArg} \cup
    {List("str", names) :
        names \in {<<>>, <<"spatial">>, <<"proj">>, <<"multiscales">>,
                   <<"spatial", "proj", "multiscales">>, <<"proj", "proj">>,
                   <<"zarr_conventions">>, <<"other">>, <<"other", "spatial">>}}

Registered == [installed |-> TRUE, registered |-> {<<<<"E">>, <<"4">>>>}, raises |-> FALSE]

InitEngine ==
    /\ attrs \in EngineAttrs
    /\ conventions \in ConventionsValues
    /\ members \in {{}, {"0"}}
    /\ request = NoRequest
    /\ store = NoStore
    /\ pyproj = Registered
    /\ pc = "start"
    /\ ret = NoReturn
    /\ trace = <<>>

\* validate_attrs(attrs, conventions)
CallValidateAttrs ==
    /\ pc = "start"
    /\ pc' = "validate_attrs"
    /\ ret' = validate_attrs(attrs, conventions, pyproj)
    /\ trace' = ValidatorCalls(attrs, conventions)
    /\ UNCHANGED <<attrs, conventions, members, pyproj, request, store>>

\* validate_group(group, conventions) on a group whose attributes are attrs
CallValidateGroup ==
    /\ pc = "start"
    /\ pc' = "validate_group"
    /\ ret' = validate_group(Group(attrs, members), conventions, pyproj)
    /\ trace' = ValidatorCalls(attrs, conventions)
    /\ UNCHANGED <<attrs, conventions, members, pyproj, request, store>>

NextEngine == CallValidateAttrs \/ CallValidateGroup

SpecEngine == InitEngine /\ [][NextEngine]_vars

(***************************************************************************)
(* Claims about the engine, under SpecEngine.                              *)
(***************************************************************************)
ConventionNames == {"spatial", "proj", "multiscales"}

\* The conventions list the call works on: the given one, or the detected one.
ConventionsList ==
    IF conventions = NoneArg THEN detect_conventions(attrs).value ELSE conventions.v

\* C1: whenever validate_attrs returns, each of spatial, proj, multiscales is
\* a key of the result iff it is in the conventions list (given, or detected
\* when omitted); other names in the list add no key, and a convention not
\* in the list is absent from the result.
C1_ResultKeys ==
    (pc = "validate_attrs" /\ ret.kind = "return") =>
        /\ \A n \in ConventionNames : n \in Keys(ret.value) <=> In(n, ConventionsList)
        /\ \A k \in Keys(ret.value) :
               \/ k \in ConventionNames
               \/ k = "zarr_conventions" /\ "zarr_conventions" \in DOMAIN attrs
        /\ NoDuplicates([i \in DOMAIN ret.value |-> ret.value[i].name])

\* validate_attrs was given a list naming spatial and a foreign name, on
\* attributes that also carry proj and multiscales keys: only spatial is
\* reported.
C1_Witness ==
    /\ pc = "validate_attrs"
    /\ conventions = List("str", <<"other", "spatial">>)
    /\ "proj:wkt2" \in DOMAIN attrs
    /\ "multiscales" \in DOMAIN attrs
    /\ "zarr_conventions" \notin DOMAIN attrs
    /\ ret.kind = "return"
    /\ Keys(ret.value) = {"spatial"}

\* C2: whenever validate_attrs or validate_group returns, the result has the
\* key zarr_conventions iff the attributes have the key zarr_conventions,
\* whatever the conventions argument is.
C2_RegistryKey ==
    (pc \in {"validate_attrs", "validate_group"} /\ ret.kind = "return") =>
        ("zarr_conventions" \in Keys(ret.value) <=> "zarr_conventions" \in DOMAIN attrs)

\* validate_group was given an empty conventions list on attributes with a
\* registry: the registry check is the only key of the result.
C2_Witness ==
    /\ pc = "validate_group"
    /\ conventions = List("str", <<>>)
    /\ RegistryIsList(attrs)
    /\ "spatial:dimensions" \in DOMAIN attrs
    /\ ret.kind = "return"
    /\ Keys(ret.value) = {"zarr_conventions"}

\* The convention is declared by a registry entry while its own keys are
\* absent from the attributes.
OnlyInRegistry(n, a) ==
    CASE n = "spatial" ->
             Declares(a, SPATIAL_UUID, "spatial:") /\ "spatial:dimensions" \notin DOMAIN a
      [] n = "proj" ->
             Declares(a, PROJ_UUID, "proj:") /\ ~\E key \in DOMAIN a : StartsWithProj(key)
      [] n = "multiscales" ->
             Declares(a, MULTISCALES_UUID, "multiscales") /\ "multiscales" \notin DOMAIN a

\* C4: when a convention is detected only through a zarr_conventions entry,
\* validate_attrs with auto-detection reports that convention with a
\* non-empty error list.
C4_Claim ==
    (pc = "validate_attrs" /\ conventions = NoneArg /\ ret.kind = "return") =>
        \A n \in ConventionNames :
            OnlyInRegistry(n, attrs) =>
                n \in Keys(ret.value) /\ ErrorsOf(ret.value, n) # <<>>

\* What the code does: the convention is always in the result, and its
\* error list is empty when the un-prefixed field names (dimensions, wkt2)
\* supply what the schema requires.
C4_Behaviour ==
    (pc = "validate_attrs" /\ conventions = NoneArg /\ ret.kind = "return") =>
        \A n \in ConventionNames :
            OnlyInRegistry(n, attrs) =>
                /\ n \in Keys(ret.value)
                /\ ErrorsOf(ret.value, n) = <<>> =>
                       \/ n = "spatial" /\ "dimensions" \in DOMAIN attrs
                       \/ n = "proj" /\ "wkt2" \in DOMAIN attrs

\* spatial is declared by the registry only, and reported as failing.
C4_Witness ==
    /\ pc = "validate_attrs"
    /\ conventions = NoneArg
    /\ OnlyInRegistry("spatial", attrs)
    /\ ret.kind = "return"
    /\ "spatial" \in Keys(ret.value)
    /\ Mentions(ErrorsOf(ret.value, "spatial"), MsgFieldRequired)


\* C11: on every attribute mapping, malformed values included (a multiscales
\* or zarr_conventions value that is null, a scalar, a string or a list),
\* validate_attrs returns its error-list result, no exception escapes, and a
\* malformed multiscales or zarr_conventions value has a non-empty error list.
C11_Claim ==
    (pc = "validate_attrs") =>
        /\ ret.kind = "return"
        /\ ("multiscales" \in Keys(ret.value) /\ "multiscales" \in DOMAIN attrs
                /\ ~IsDict(attrs["multiscales"])) =>
               ErrorsOf(ret.value, "multiscales") # <<>>
        /\ ("zarr_conventions" \in DOMAIN attrs /\ ~RegistryIsList(attrs)) =>
               ErrorsOf(ret.value, "zarr_conventions") # <<>>

\* validate_attrs detected multiscales from a null multiscales value and the
\* TypeError of Multiscales(**None) escaped.
C11_Witness ==
    /\ pc = "validate_attrs"
    /\ conventions = NoneArg
    /\ "multiscales" \in DOMAIN attrs
    /\ attrs["multiscales"] = Null
    /\ "zarr_conventions" \notin DOMAIN attrs
    /\ ret = Raised("TypeError", <<>>)


(***************************************************************************)
(* application/app.py: the two POST routes of the validator service.       *)
(***************************************************************************)
AttributesRoute == "/api/validate/attributes"
GroupRoute == "/api/validate/group"

MsgMissingObstore == "Missing dependency: obstore. Install with: pip install obstore"
MsgFailedToOpen == "Failed to open Zarr store at '{url}'"

\* The request models: attributes is a required mapping; url is a required
\* string and group an optional one.  Keys the model does not declare are
\* ignored.
ValidRequestBody(route, body) ==
    IF route = AttributesRoute
    THEN "attributes" \in DOMAIN body /\ IsDict(body["attributes"])
    ELSE /\ "url" \in DOMAIN body /\ IsStr(body["url"])
         /\ "group" \in DOMAIN body => body["group"].t \in {"str", "null"}

Response(status, body) == [status |-> status, body |-> body]

\* ConventionResult(valid=len(errs) == 0, errors=errs) for every item
ConventionResults(raw) ==
    [i \in DOMAIN raw |->
        [name |-> raw[i].name, valid |-> Len(raw[i].errors) = 0, errors |-> raw[i].errors]]

\* The valid flag is the first result's.
all_valid_first_only(results) == results = <<>> \/ results[1].valid

\* all(r.valid for r in results.values())
all_valid(results) == \A i \in DOMAIN results : results[i].valid

\* The tail shared by the two handlers: detection, validation, aggregation.
\* An exception of the core leaves the handler.
Report(detected, raw, error) ==
    IF detected.kind = "raise" THEN detected
    ELSE IF raw.kind = "raise" THEN raw
    ELSE Returned(Response(200,
             [conventions |-> detected.value,
              results |-> ConventionResults(raw.value),
              valid |-> all_valid(ConventionResults(raw.value)),
              error |-> error]))

\* validate_attributes(request); its response model has no error field,
\* which is rendered as a null error here.
validate_attributes(body, crs) ==
    LET attributes == body["attributes"].v
        detected == detect_conventions(attributes)
    IN  Report(detected,
               IF detected.kind = "raise" THEN detected
               ELSE validate_attrs(attributes, List("str", detected.value), crs),
               Null)

\* The failure is answered as a passing validation.
Failure_valid(error) ==
    Returned(Response(200,
        [conventions |-> <<>>, results |-> <<>>, valid |-> TRUE, error |-> Str(error)]))

\* The response of the two early returns of validate_group_endpoint.
Failure(error) ==
    Returned(Response(200,
        [conventions |-> <<>>, results |-> <<>>, valid |-> FALSE, error |-> Str(error)]))

\* validate_group_endpoint(request) against the world w: is obstore
\* installed, does the store open; grp is the group the store holds.
validate_group_endpoint(body, w, grp, crs) ==
    IF ~w.obstore THEN Failure(MsgMissingObstore)
    ELSE IF ~w.opens THEN Failure(MsgFailedToOpen)
    ELSE LET detected == detect_conventions(grp.attrs)
         IN  Report(detected,
                    IF detected.kind = "raise" THEN detected
                    ELSE validate_group(grp, List("str", detected.value), crs),
                    Null)


(***************************************************************************)
(* Requests the service is exercised on.  attrs is the attribute mapping   *)
(* at stake: sent as the attributes of the body, or held by the group the  *)
(* url names.                                                              *)
(***************************************************************************)
RequestPaths == {"/api/validate", AttributesRoute, GroupRoute}

RequestBodies(a) ==
    {EmptyMap,
     "attributes" :> Dict(a),
     "url" :> Str("https://example.org/data.zarr"),
     ("url" :> Str("https://example.org/data.zarr")) @@ ("group" :> Str("measurements"))}

StoreStates == [obstore : BOOLEAN, opens : BOOLEAN]

InitHttp ==
    /\ attrs \in EngineAttrs
    /\ conventions = NoneArg
    /\ members = {}
    /\ pyproj = Registered
    /\ request \in {[path |-> p, body |-> b] : p \in RequestPaths, b \in RequestBodies(attrs)}
    /\ store \in StoreStates
    /\ pc = "start"
    /\ ret = NoReturn
    /\ trace = <<>>

\* No route has the path of the request: the framework answers 404.
RouteNotFound ==
    /\ pc = "start"
    /\ request.path \notin {AttributesRoute, GroupRoute}
    /\ pc' = "not_found"
    /\ ret' = Returned(Response(404, Null))
    /\ UNCHANGED <<attrs, conventions, members, pyproj, request, store, trace>>

\* The body does not fit the request model of the route: the framework
\* answers 422 and the handler is not entered.
RejectRequest ==
    /\ pc = "start"
    /\ request.path \in {AttributesRoute, GroupRoute}
    /\ ~ValidRequestBody(request.path, request.body)
    /\ pc' = "rejected"
    /\ ret' = Returned(Response(422, Null))
    /\ UNCHANGED <<attrs, conventions, members, pyproj, request, store, trace>>

\* POST /api/validate/attributes
PostValidateAttributes ==
    /\ pc = "start"
    /\ request.path = AttributesRoute
    /\ ValidRequestBody(request.path, request.body)
    /\ pc' = "validate_attributes"
    /\ ret' = validate_attributes(request.body, pyproj)
    /\ trace' = <<Call("detect_conventions")>>
                \o When(detect_conventions(attrs).kind = "return", Call("validate_attrs"))
    /\ UNCHANGED <<attrs, conventions, members, pyproj, request, store>>

\* POST /api/validate/group
PostValidateGroup ==
    /\ pc = "start"
    /\ request.path = GroupRoute
    /\ ValidRequestBody(request.path, request.body)
    /\ pc' = "validate_group_endpoint"
    /\ ret' = validate_group_endpoint(request.body, store, Group(attrs, members), pyproj)
    /\ trace' = IF store.obstore /\ store.opens
                THEN <<Call("detect_conventions")>>
                     \o When(detect_conventions(attrs).kind = "return", Call("validate_group"))
                ELSE <<>>
    /\ UNCHANGED <<attrs, conventions, members, pyproj, request, store>>

NextHttp == RouteNotFound \/ RejectRequest \/ PostValidateAttributes \/ PostValidateGroup

SpecHttp == InitHttp /\ [][NextHttp]_vars

(***************************************************************************)
(* Claims about the service, under SpecHttp.                               *)
(***************************************************************************)
Answered == pc \in {"validate_attributes", "validate_group_endpoint"} /\ ret.kind = "return"

\* C12: the overall valid flag of a response is the conjunction, over every
\* key of the result mapping (zarr_conventions included), of that key's
\* error list being empty, and each per-convention valid flag says that its
\* error list is empty; for the empty attribute mapping the conventions and
\* the results are empty and valid is true.
C12_Aggregation ==
    (pc = "validate_attributes" /\ ret.kind = "return") =>
        LET resp == ret.value.body
        IN  /\ resp.valid <=> \A i \in DOMAIN resp.results : resp.results[i].errors = <<>>
            /\ \A i \in DOMAIN resp.results :
                   resp.results[i].valid <=> resp.results[i].errors = <<>>
            /\ {resp.results[i].name : i \in DOMAIN resp.results}
                   = Keys(validate_attrs(attrs, List("str", resp.conventions), pyproj).value)
            /\ attrs = EmptyMap =>
                   /\ validate_attrs(attrs, NoneArg, pyproj) = Returned(<<>>)
                   /\ resp.conventions = <<>>
                   /\ resp.results = <<>>
                   /\ resp.valid

\* A response in which spatial passes and only the registry has an error:
\* the overall flag is false.
C12_Witness ==
    /\ pc = "validate_attributes"
    /\ ret.kind = "return"
    /\ Len(ret.value.body.results) = 2
    /\ ret.value.body.results[1] = [name |-> "spatial", valid |-> TRUE, errors |-> <<>>]
    /\ ret.value.body.results[2].name = "zarr_conventions"
    /\ ret.value.body.results[2].errors # <<>>
    /\ ret.value.body.valid = FALSE


\* C16: on the group route, a missing obstore dependency or a store that
\* fails to open never raises: the response has valid false, no conventions,
\* no results and an error string.  In every response of the handler a
\* non-null error comes with valid false and empty conventions and results,
\* and a response after a successful open has a null error.
C16_OpenFailures ==
    (pc = "validate_group_endpoint") =>
        /\ (~store.obstore \/ ~store.opens) =>
               /\ ret.kind = "return"
               /\ ret.value.body.valid = FALSE
               /\ ret.value.body.conventions = <<>>
               /\ ret.value.body.results = <<>>
               /\ ret.value.body.error # Null
        /\ ret.kind = "return" =>
               /\ ret.value.body.error # Null =>
                      /\ ret.value.body.valid = FALSE
                      /\ ret.value.body.conventions = <<>>
                      /\ ret.value.body.results = <<>>
               /\ (store.obstore /\ store.opens) => ret.value.body.error = Null

\* The store of a well-formed group request failed to open, although its
\* group would have validated: the response carries the open failure.
C16_Witness ==
    /\ pc = "validate_group_endpoint"
    /\ store.obstore /\ ~store.opens
    /\ "spatial:dimensions" \in DOMAIN attrs
    /\ ret = Failure(MsgFailedToOpen)
    /\ trace = <<>>

\* The request carries neither a url nor attributes.
NeitherUrlNorAttributes(body) == "url" \notin DOMAIN body /\ "attributes" \notin DOMAIN body

\* C18: the validation surface is one POST endpoint taking {attributes} or
\* {url, group?}: a body with neither is answered 422 before the core runs,
\* a body with attributes is answered 200 with the detected conventions
\* (attribute mappings on which the core itself raises are left aside).
C18_Claim ==
    (pc # "start") =>
        /\ NeitherUrlNorAttributes(request.body) =>
               ret = Returned(Response(422, Null)) /\ trace = <<>>
        /\ ("attributes" \in DOMAIN request.body
                /\ validate_attrs(attrs, NoneArg, pyproj).kind = "return") =>
               /\ ret.kind = "return"
               /\ ret.value.status = 200
               /\ ret.value.body.conventions = detect_conventions(attrs).value

\* What the code does: the claim's two answers are given on the routes the
\* application defines, each taking its own body only.
C18_Behaviour ==
    (pc # "start") =>
        /\ request.path \notin {AttributesRoute, GroupRoute} => ret.value.status = 404
        /\ (request.path \in {AttributesRoute, GroupRoute}
                /\ NeitherUrlNorAttributes(request.body)) =>
               ret = Returned(Response(422, Null)) /\ trace = <<>>
        /\ (request.path = GroupRoute /\ "attributes" \in DOMAIN request.body) =>
               ret = Returned(Response(422, Null))
        /\ (request.path = AttributesRoute /\ "attributes" \in DOMAIN request.body
                /\ validate_attrs(attrs, NoneArg, pyproj).kind = "return") =>
               /\ ret.kind = "return"
               /\ ret.value.status = 200
               /\ ret.value.body.conventions = detect_conventions(attrs).value

\* An empty body posted to the attributes route was rejected with 422, no
\* core function having run.
C18_Witness ==
    /\ pc = "rejected"
    /\ request.path = AttributesRoute
    /\ request.body = EmptyMap
    /\ ret = Returned(Response(422, Null))
    /\ trace = <<>>


(***************************************************************************)
(* More claims about the engine, under SpecEngine.                         *)
(***************************************************************************)
\* C13: validate_group(g, c) returns exactly what validate_attrs(dict(g.attrs), c)
\* returns, for every conventions argument c, omitted included, and whatever
\* the child members of g are.
C13_GroupIsAttrs ==
    (pc = "validate_group") =>
        /\ ret = validate_attrs(attrs, conventions, pyproj)
        /\ \A m \in {{}, {"0"}, {"0", "1"}} :
               validate_group(Group(attrs, m), conventions, pyproj) = ret

\* validate_group ran with an explicit list on a group that has a child and
\* the keys of other conventions: it reported what was asked, spatial only.
C13_Witness ==
    /\ pc = "validate_group"
    /\ members = {"0"}
    /\ conventions = List("str", <<"spatial">>)
    /\ "multiscales" \in DOMAIN attrs
    /\ "proj:wkt2" \in DOMAIN attrs
    /\ ret.kind = "return"
    /\ Keys(ret.value) = {"spatial"}


(***************************************************************************)
(* helpers/metadata.py: the attribute builders.                            *)
(***************************************************************************)
Bool(b) == [t |-> "bool", v |-> b]

\* A keyword argument, or its default when it is not passed.
Arg(kw, name, default) == IF name \in DOMAIN kw THEN kw[name] ELSE default

\* `x if x else None`
OrNone(v) == IF Truthy(v) THEN v ELSE Null

\* exclude_none: the keys whose value is None are left out.
ExcludeNone(m) == [k \in {x \in DOMAIN m : m[x] # Null} |-> m[k]]

\* The dump keeps the field names.
SpatialDump_by_name(self) ==
    ExcludeNone(("dimensions" :> self.dimensions) @@ ("bbox" :> self.bbox)
                @@ ("transform_type" :> self.transform_type)
                @@ ("transform" :> self.transform) @@ ("shape" :> self.shape)
                @@ ("registration" :> self.registration))

\* spatial.model_dump(exclude_none=True, by_alias=True)
SpatialDump(self) ==
    ExcludeNone(("spatial:dimensions" :> self.dimensions) @@ ("spatial:bbox" :> self.bbox)
                @@ ("spatial:transform_type" :> self.transform_type)
                @@ ("spatial:transform" :> self.transform) @@ ("spatial:shape" :> self.shape)
                @@ ("spatial:registration" :> self.registration))

\* proj.model_dump(exclude_none=True, by_alias=True)
ProjDump(self) ==
    ExcludeNone(("proj:code" :> self.code) @@ ("proj:wkt2" :> self.wkt2)
                @@ ("proj:projjson" :> self.projjson))

create_spatial_attrs(kw) ==
    LET spatial == Spatial(("dimensions" :> kw["dimensions"])
                           @@ ("transform" :> OrNone(Arg(kw, "transform", Null)))
                           @@ ("bbox" :> OrNone(Arg(kw, "bbox", Null)))
                           @@ ("shape" :> OrNone(Arg(kw, "shape", Null)))
                           @@ ("registration" :> Arg(kw, "registration", Str("pixel"))))
    IN  IF spatial.ok THEN Returned(SpatialDump(spatial.rec))
        ELSE Raised("ValidationError", spatial.errors)

create_proj_attrs(kw, crs) ==
    LET proj == Proj(("code" :> Arg(kw, "code", Null)) @@ ("wkt2" :> Arg(kw, "wkt2", Null))
                     @@ ("projjson" :> Arg(kw, "projjson", Null)), crs).out
    IN  IF proj.ok THEN Returned(ProjDump(proj.rec))
        ELSE Raised("ValidationError", proj.errors)

\* conv.model_dump(exclude_none=True) of an identity record built without
\* arguments: the fields that are set.
IdentityDump(cls) ==
    LET self == ConventionMetadata(cls, EmptyMap).rec
    IN  Dict([k \in {x \in DOMAIN self : self[x] \notin {Unset, Null}} |-> self[k]])

\* No string is taken to have the prefix.
StartsWith_never(cs, prefix) == FALSE

\* cs.startswith(prefix)
StartsWith(cs, prefix) ==
    Len(cs) >= Len(prefix) /\ SubSeq(cs, 1, Len(prefix)) = prefix

EpsgPrefix == <<"E", "P", "S", "G", ":">>


\* create_zarr_conventions(*conventions), of identity records built without
\* arguments
create_zarr_conventions(classes) == [i \in DOMAIN classes |-> IdentityDump(classes[i])]

create_geozarr_attrs(kw, crs) ==
    LET spatial_attrs == create_spatial_attrs(kw)
        crsArg == Arg(kw, "crs", Null)
        proj_attrs ==
            IF ~Truthy(crsArg) THEN Returned(EmptyMap)
            ELSE IF StartsWith(crsArg.chars, EpsgPrefix)
            THEN create_proj_attrs("code" :> crsArg, crs)
            ELSE create_proj_attrs("wkt2" :> crsArg, crs)
        declared ==
            <<SpatialConventionMetadataClass>>
            \o When(Truthy(crsArg), ProjConventionMetadataClass)
        registry ==
            IF Truthy(Arg(kw, "include_conventions", Bool(TRUE)))
            THEN "zarr_conventions" :> List("dict", create_zarr_conventions(declared))
            ELSE EmptyMap
    IN  IF spatial_attrs.kind = "raise" THEN spatial_attrs
        ELSE IF proj_attrs.kind = "raise" THEN proj_attrs
        ELSE Returned(registry @@ proj_attrs.value @@ spatial_attrs.value)

\* The pair is left as computed.
Ordered_as_computed(lo, hi) == <<lo, hi>>

\* if lo > hi: lo, hi = hi, lo
Ordered(lo, hi) == IF lo > hi THEN <<hi, lo>> ELSE <<lo, hi>>

\* from_geotransform(geotransform, crs_wkt, shape, dimensions); unpacking a
\* geotransform that has not six elements is a ValueError.
from_geotransform(kw, crs) ==
    IF Len(kw["geotransform"].v) # 6 THEN Raised("ValueError", <<>>)
    ELSE LET g == kw["geotransform"].v
             c == g[1]
             a == g[2]
             b == g[3]
             f == g[4]
             d == g[5]
             e == g[6]
             height == kw["shape"].v[1]
             width == kw["shape"].v[2]
             xs == Ordered(c, c + a * width + b * height)
             ys == Ordered(f + d * width + e * height, f)
             spatial_attrs ==
                 create_spatial_attrs(
                     ("dimensions" :> Arg(kw, "dimensions", List("str", <<"Y", "X">>)))
                     @@ ("transform" :> List("num", <<a, b, c, d, e, f>>))
                     @@ ("bbox" :> List("num", <<xs[1], ys[1], xs[2], ys[2]>>))
                     @@ ("shape" :> List("num", <<height, width>>)))
             proj_attrs == create_proj_attrs("wkt2" :> kw["crs_wkt"], crs)
         IN  IF spatial_attrs.kind = "raise" THEN spatial_attrs
             ELSE IF proj_attrs.kind = "raise" THEN proj_attrs
             ELSE Returned(proj_attrs.value @@ spatial_attrs.value)

(***************************************************************************)
(* Arguments the builders are exercised on.                                *)
(***************************************************************************)
MaxPixel == 2
MaxExtent == 2

CrsValues ==
    {Null, Chars(<<>>), Chars(<<"E", "P", "S", "G", ":", "4">>),
     Chars(<<"E", "P", "S", "G", ":", "e">>), Chars(<<"e", "P", "S", "G", ":", "4">>),
     Chars(<<"W", "K", "T">>)}

\* Keyword arguments of create_spatial_attrs and create_geozarr_attrs.
CreateKwargs ==
    Merge({"dimensions" :> List("str", <<>>), "dimensions" :> List("str", <<"Y", "X">>)},
    Merge(Opt("transform", SpatialTransformValues),
    Merge(Opt("bbox", {NumList(0), NumList(4)}),
    Merge(Opt("shape", {List("num", <<2, 3>>)}),
    Merge(Opt("registration", {Str("pixel"), Str("node"), Str("invalid")}),
    Merge(Opt("crs", CrsValues),
          Opt("include_conventions", {Bool(TRUE), Bool(FALSE)})))))))

\* Arguments of from_geotransform: [c, a, b, f, d, e] and (height, width).
GeotransformArgs ==
    {("geotransform" :> List("num", <<c, a, b, f, d, e>>))
       @@ ("shape" :> List("num", <<h, w>>)) @@ ("crs_wkt" :> wkt) :
        c \in {-1, 2}, f \in {0, 2}, a \in -MaxPixel..MaxPixel, e \in -MaxPixel..MaxPixel,
        b \in {0, 1}, d \in {-1, 0}, h \in 0..MaxExtent, w \in 0..MaxExtent,
        wkt \in {Chars(<<"W", "K", "T">>), Chars(<<>>)}}
    \cup {("geotransform" :> NumList(5)) @@ ("shape" :> List("num", <<1, 1>>))
            @@ ("crs_wkt" :> Chars(<<"W", "K", "T">>)) @@ ("dimensions" :> List("str", <<"y", "x">>))}

EpsgRegistered ==
    [installed |-> TRUE, registered |-> {<<<<"E", "P", "S", "G">>, <<"4">>>>},
     raises |-> FALSE]

InitBuilders ==
    /\ attrs \in CreateKwargs \cup GeotransformArgs
    /\ conventions = NoneArg
    /\ members = {}
    /\ request = NoRequest
    /\ store = NoStore
    /\ pyproj \in {EpsgRegistered, NoPyproj}
    /\ pc = "start"
    /\ ret = NoReturn
    /\ trace = <<>>

\* create_spatial_attrs(**attrs)
CallCreateSpatialAttrs ==
    /\ pc = "start"
    /\ "geotransform" \notin DOMAIN attrs
    /\ pc' = "create_spatial_attrs"
    /\ ret' = create_spatial_attrs(attrs)
    /\ trace' = <<Construct("Spatial")>>
    /\ UNCHANGED <<attrs, conventions, members, pyproj, request, store>>

\* create_geozarr_attrs(**attrs)
CallCreateGeozarrAttrs ==
    /\ pc = "start"
    /\ "geotransform" \notin DOMAIN attrs
    /\ pc' = "create_geozarr_attrs"
    /\ ret' = create_geozarr_attrs(attrs, pyproj)
    /\ trace' = <<Construct("Spatial")>>
    /\ UNCHANGED <<attrs, conventions, members, pyproj, request, store>>

\* from_geotransform(**attrs)
CallFromGeotransform ==
    /\ pc = "start"
    /\ "geotransform" \in DOMAIN attrs
    /\ pc' = "from_geotransform"
    /\ ret' = from_geotransform(attrs, pyproj)
    /\ trace' = When(Len(attrs["geotransform"].v) = 6, Construct("Spatial"))
    /\ UNCHANGED <<attrs, conventions, members, pyproj, request, store>>

NextBuilders == CallCreateSpatialAttrs \/ CallCreateGeozarrAttrs \/ CallFromGeotransform

SpecBuilders == InitBuilders /\ [][NextBuilders]_vars


(***************************************************************************)
(* Claims about the builders, under SpecBuilders.                          *)
(***************************************************************************)
SpatialKeys ==
    {"spatial:dimensions", "spatial:bbox", "spatial:transform_type", "spatial:transform",
     "spatial:shape", "spatial:registration"}

\* Re-validating the mapping a builder returned.
Revalidated == validate_attrs(ret.value, NoneArg, pyproj)

\* C14: whenever create_spatial_attrs succeeds, the mapping it returns uses
\* the spatial:-prefixed keys, has no null value, and validate_attrs on it
\* reports spatial with an empty error list.
C14_RoundTrip ==
    (pc = "create_spatial_attrs" /\ ret.kind = "return") =>
        /\ DOMAIN ret.value \subseteq SpatialKeys
        /\ \A k \in DOMAIN ret.value : ret.value[k] # Null
        /\ Revalidated.kind = "return"
        /\ "spatial" \in Keys(Revalidated.value)
        /\ ErrorsOf(Revalidated.value, "spatial") = <<>>

\* create_spatial_attrs succeeded with a six-coefficient transform and a
\* bbox, and returned them under their prefixed keys.
C14_Witness ==
    /\ pc = "create_spatial_attrs"
    /\ "transform" \in DOMAIN attrs
    /\ "bbox" \in DOMAIN attrs
    /\ ret.kind = "return"
    /\ "spatial:transform" \in DOMAIN ret.value
    /\ ret.value["spatial:transform"] = NumList(6)
    /\ "spatial:bbox" \in DOMAIN ret.value
    /\ "spatial:shape" \notin DOMAIN ret.value

CrsOf(kw) == IF "crs" \in DOMAIN kw THEN kw["crs"] ELSE Null
CrsGiven(kw) == CrsOf(kw) # Null /\ CrsOf(kw).chars # <<>>
CrsIsEpsg(kw) ==
    /\ CrsGiven(kw)
    /\ Len(CrsOf(kw).chars) >= 5
    /\ SubSeq(CrsOf(kw).chars, 1, 5) = <<"E", "P", "S", "G", ":">>
IncludeConventions(kw) ==
    "include_conventions" \in DOMAIN kw => kw["include_conventions"] = Bool(TRUE)

IsIdentity(entry, uuid, name) ==
    /\ entry.t = "dict"
    /\ entry.v["uuid"] = Str(uuid)
    /\ entry.v["name"] = Str(name)

\* C20: whenever create_geozarr_attrs succeeds with include_conventions true,
\* the mapping has a zarr_conventions list holding the spatial identity,
\* followed by the proj identity exactly when a non-empty crs was given; it
\* carries proj:code when the crs starts with "EPSG:" and proj:wkt2 when it
\* is another non-empty crs; validate_attrs on it yields only empty error
\* lists.  With include_conventions false the key zarr_conventions is absent.
C20_Geozarr ==
    (pc = "create_geozarr_attrs" /\ ret.kind = "return") =>
        /\ ~IncludeConventions(attrs) => "zarr_conventions" \notin DOMAIN ret.value
        /\ IncludeConventions(attrs) =>
               /\ "zarr_conventions" \in DOMAIN ret.value
               /\ ret.value["zarr_conventions"].t = "list"
               /\ LET entries == ret.value["zarr_conventions"].v
                  IN  /\ Len(entries) = IF CrsGiven(attrs) THEN 2 ELSE 1
                      /\ IsIdentity(entries[1], SPATIAL_UUID, "spatial:")
                      /\ CrsGiven(attrs) => IsIdentity(entries[2], PROJ_UUID, "proj:")
               /\ CrsIsEpsg(attrs) =>
                      /\ "proj:code" \in DOMAIN ret.value
                      /\ ret.value["proj:code"] = CrsOf(attrs)
               /\ (CrsGiven(attrs) /\ ~CrsIsEpsg(attrs)) =>
                      /\ "proj:wkt2" \in DOMAIN ret.value
                      /\ ret.value["proj:wkt2"] = CrsOf(attrs)
               /\ Revalidated.kind = "return"
               /\ \A i \in DOMAIN Revalidated.value : Revalidated.value[i].errors = <<>>

\* create_geozarr_attrs succeeded with an EPSG code: two identities and
\* proj:code.
C20_Witness ==
    /\ pc = "create_geozarr_attrs"
    /\ CrsIsEpsg(attrs)
    /\ IncludeConventions(attrs)
    /\ ret.kind = "return"
    /\ Len(ret.value["zarr_conventions"].v) = 2
    /\ "proj:code" \in DOMAIN ret.value
    /\ Keys(Revalidated.value) = {"spatial", "proj", "zarr_conventions"}


(***************************************************************************)
(* conventions/multiscales.py: MultiscalesAttrs.                           *)
(***************************************************************************)
MsgMustIncludeMultiscales ==
    "Value error, zarr_conventions must include the multiscales convention (uuid: {MULTISCALES_UUID})"

\* The errors of the entries of zarr_conventions, each validated as a
\* ZarrConventionMetadata, from entry i on.
RECURSIVE RegistryEntryErrors(_, _)
RegistryEntryErrors(entries, i) ==
    IF i > Len(entries) THEN <<>>
    ELSE (IF ~IsDict(entries[i])
          THEN <<Err("zarr_conventions", MsgNotAModel, Num(i - 1))>>
          ELSE LET r == ZarrConventionMetadata(entries[i].v)
               IN  [j \in DOMAIN r.errors |->
                       Err("zarr_conventions", r.errors[j].msg, Num(i - 1))])
         \o RegistryEntryErrors(entries, i + 1)

\* Only the uuid identifies the convention.
ensure_multiscales_convention_by_uuid(value) ==
    IF \E i \in DOMAIN value : Get(value[i].v, "uuid") = Str(MULTISCALES_UUID)
    THEN <<>>
    ELSE <<Err("zarr_conventions", MsgMustIncludeMultiscales, Null)>>

\* The mode="after" field validator, on the validated entries.
ensure_multiscales_convention(value) ==
    IF \E i \in DOMAIN value :
           LET conv == IdentityRecord(ZarrConventionMetadataClass, value[i].v)
           IN  conv["uuid"] = Str(MULTISCALES_UUID) \/ conv["name"] = Str("multiscales")
    THEN <<>>
    ELSE <<Err("zarr_conventions", MsgMustIncludeMultiscales, Null)>>

\* MultiscalesAttrs(**data): the errors of the two fields are collected.
MultiscalesAttrs(data) ==
    LET zarr_conventions == Field(data, "zarr_conventions")
        multiscales == Field(data, "multiscales")
        registryErrors ==
            IF zarr_conventions = Unset
            THEN <<Err("zarr_conventions", MsgFieldRequired, Null)>>
            ELSE IF zarr_conventions.t # "list"
            THEN <<Err("zarr_conventions", MsgNotATuple, Null)>>
            ELSE IF RegistryEntryErrors(zarr_conventions.v, 1) # <<>>
            THEN RegistryEntryErrors(zarr_conventions.v, 1)
            ELSE ensure_multiscales_convention(zarr_conventions.v)
        multiscalesErrors ==
            IF multiscales = Unset THEN <<Err("multiscales", MsgFieldRequired, Null)>>
            ELSE IF ~IsDict(multiscales) THEN <<Err("multiscales", MsgNotAModel, Null)>>
            ELSE Multiscales(multiscales.v).errors
        errors == registryErrors \o multiscalesErrors
    IN  IF errors # <<>> THEN Invalid(errors)
        ELSE Ok([zarr_conventions |-> zarr_conventions, multiscales |-> multiscales,
                 extra |-> DOMAIN data \ {"zarr_conventions", "multiscales"}])

(***************************************************************************)
(* Arguments MultiscalesAttrs is constructed from.                         *)
(***************************************************************************)
MultiscalesAttrsKwargs ==
    Merge(Opt("zarr_conventions",
              {Null, Str("multiscales")}
              \cup {List("dict", q) :
                      q \in SeqsUpTo(RegistryEntryValues
                                     \cup {Dict(("uuid" :> Str("other-uuid"))
                                                @@ ("name" :> Str("multiscales"))),
                                           Dict(("uuid" :> Str(MULTISCALES_UUID))
                                                @@ ("version" :> Str("1")))},
                                     MaxEntries)}),
          Opt("multiscales",
              {Null,
               Dict("layout" :> List("dict", <<Level("asset" :> Str("0"))>>)),
               Dict("layout" :> List("dict", <<>>))}))

InitMultiscalesAttrs ==
    /\ attrs \in MultiscalesAttrsKwargs
    /\ conventions = NoneArg
    /\ members = {}
    /\ request = NoRequest
    /\ store = NoStore
    /\ pyproj = NoPyproj
    /\ pc = "start"
    /\ ret = NoReturn
    /\ trace = <<>>

\* MultiscalesAttrs(**attrs)
ConstructMultiscalesAttrs ==
    /\ pc = "start"
    /\ pc' = "MultiscalesAttrs"
    /\ ret' = Constructed(MultiscalesAttrs(attrs))
    /\ trace' = <<Construct("MultiscalesAttrs")>>
    /\ UNCHANGED <<attrs, conventions, members, pyproj, request, store>>

NextMultiscalesAttrs == ConstructMultiscalesAttrs

SpecMultiscalesAttrs == InitMultiscalesAttrs /\ [][NextMultiscalesAttrs]_vars

(***************************************************************************)
(* Claims about MultiscalesAttrs, under SpecMultiscalesAttrs.              *)
(***************************************************************************)
\* Some mapping entry of the registry has the multiscales uuid or name.
NamesMultiscales(a) == Declares(a, MULTISCALES_UUID, "multiscales")

MultiscalesObjectValid(a) ==
    /\ "multiscales" \in DOMAIN a
    /\ IsDict(a["multiscales"])
    /\ Multiscales(a["multiscales"].v).ok

\* Every entry of the registry is a valid identity record.
RegistryWellFormed(a) ==
    /\ RegistryIsList(a)
    /\ \A i \in DOMAIN RegistryOf(a) :
           /\ IsDict(RegistryOf(a)[i])
           /\ ZarrConventionMetadata(RegistryOf(a)[i].v).ok

\* C19 as stated, for a registry that is a list: MultiscalesAttrs is rejected
\* with an error mentioning the multiscales convention unless some registry
\* entry has the multiscales uuid or the name "multiscales"; it is
\* constructed when there is such an entry and the multiscales object is
\* valid.
C19_Original ==
    (pc = "MultiscalesAttrs" /\ RegistryIsList(attrs)) =>
        /\ ~NamesMultiscales(attrs) =>
               ret.kind = "raise" /\ Mentions(ret.errors, MsgMustIncludeMultiscales)
        /\ (NamesMultiscales(attrs) /\ MultiscalesObjectValid(attrs)) => ret.kind = "return"

\* C19 amended: MultiscalesAttrs is rejected unless some registry entry has
\* the multiscales uuid or name, with the multiscales-convention error when
\* the registry is a list of valid identity records; it is constructed when
\* there is such an entry, every registry entry is a valid identity record
\* and the multiscales object is valid.
C19_Amended ==
    (pc = "MultiscalesAttrs") =>
        /\ ~NamesMultiscales(attrs) =>
               /\ ret.kind = "raise"
               /\ RegistryWellFormed(attrs) => Mentions(ret.errors, MsgMustIncludeMultiscales)
        /\ (NamesMultiscales(attrs) /\ RegistryWellFormed(attrs)
                /\ MultiscalesObjectValid(attrs)) => ret.kind = "return"

\* A registry naming multiscales through the name of a record identified by
\* a foreign uuid, next to a valid multiscales object: constructed.
C19_Witness ==
    /\ pc = "MultiscalesAttrs"
    /\ RegistryIsList(attrs)
    /\ RegistryOf(attrs) = <<Dict(("uuid" :> Str("other-uuid")) @@ ("name" :> Str("multiscales")))>>
    /\ MultiscalesObjectValid(attrs)
    /\ ret.kind = "return"


(***************************************************************************)
(* cli.py: the validate command.                                           *)
(***************************************************************************)
Line(text, arg) == [text |-> text, arg |-> arg]
Exit(code, out) == Returned([code |-> code, out |-> out])

\* The report loop: a [FAIL] block for a key with errors, [OK] for the
\* others when verbose.
ReportLines(results, verbose) ==
    LET line(i) == IF results[i].errors # <<>> THEN Line("[FAIL]", results[i].name)
                   ELSE IF verbose THEN Line("[OK]", results[i].name)
                   ELSE Line("", "")
    IN  SelectSeq([i \in DOMAIN results |-> line(i)], LAMBDA l : l.text # "")

\* has_errors after the report loop
has_errors(results) == \E i \in DOMAIN results : results[i].errors # <<>>

\* validate_command(args) on the store w (does the path exist, does it open)
\* holding the group grp; convs is args.conventions.
validate_command(w, grp, convs, verbose, crs) ==
    IF ~w.exists THEN Exit(1, <<Line("Error: Path does not exist", "")>>)
    ELSE IF ~w.opens THEN Exit(1, <<Line("Error: Failed to open Zarr store", "")>>)
    ELSE LET detected == IF convs = NoneArg THEN detect_conventions(grp.attrs)
                         ELSE Returned(convs.v)
             auto == When(convs = NoneArg /\ verbose, Line("Auto-detected conventions", ""))
         IN  IF detected.kind = "raise" THEN detected
             ELSE IF detected.value = <<>>
             THEN Exit(0, auto \o <<Line("No conventions detected in store", "")>>)
             ELSE LET results == validate_group(grp, List("str", detected.value), crs)
                  IN  IF results.kind = "raise" THEN results
                      ELSE IF ~has_errors(results.value)
                      THEN Exit(0, auto \o ReportLines(results.value, verbose)
                                   \o <<Line("Validation passed for", "")>>)
                      ELSE Exit(1, auto \o ReportLines(results.value, verbose))

(***************************************************************************)
(* Command lines and stores the command is exercised on.                   *)
(***************************************************************************)
CliConventions ==
    {NoneArg} \cup
    {List("str", names) :
        names \in {<<"spatial">>, <<"proj">>, <<"multiscales">>,
                   <<"proj", "spatial">>, <<"spatial", "proj", "multiscales">>}}

InitCli ==
    /\ attrs \in EngineAttrs
    /\ conventions \in CliConventions
    /\ members = {}
    /\ request \in {[path |-> "data.zarr", verbose |-> v] : v \in BOOLEAN}
    /\ store \in [exists : BOOLEAN, opens : BOOLEAN]
    /\ pyproj = Registered
    /\ pc = "start"
    /\ ret = NoReturn
    /\ trace = <<>>

\* geozarr validate <path> [--conventions ...] [--verbose]
CallValidateCommand ==
    /\ pc = "start"
    /\ pc' = "validate_command"
    /\ ret' = validate_command(store, Group(attrs, members), conventions,
                               request.verbose, pyproj)
    /\ UNCHANGED <<attrs, conventions, members, pyproj, request, store, trace>>

NextCli == CallValidateCommand

SpecCli == InitCli /\ [][NextCli]_vars

(***************************************************************************)
(* Claims about the validate command, under SpecCli.                       *)
(***************************************************************************)
\* What validate_group reports for the same store and conventions.
GroupReport == validate_group(Group(attrs, members), conventions, pyproj)

AllPass(results) == \A i \in DOMAIN results : results[i].errors = <<>>

\* C17: the validate command exits with 1 when the path does not exist or
\* the store does not open; otherwise with 0 exactly when every error list
\* validate_group produces for the store and the conventions is empty, so
\* that the exit code agrees with the validity validate_group reports; when
\* auto-detection finds nothing it prints "No conventions detected" and
\* exits with 0.  (Runs in which the core raises are left aside.)
C17_Claim ==
    (pc = "validate_command" /\ ret.kind = "return") =>
        /\ (~store.exists \/ ~store.opens) => ret.value.code = 1
        /\ (store.exists /\ store.opens /\ GroupReport.kind = "return") =>
               (ret.value.code = 0 <=> AllPass(GroupReport.value))
        /\ (store.exists /\ store.opens /\ conventions = NoneArg
                /\ detect_conventions(attrs).value = <<>>) =>
               /\ ret.value.code = 0
               /\ In(Line("No conventions detected in store", ""), ret.value.out)

\* What the code does: with no convention to validate the command exits
\* with 0 without validating anything, the registry included; otherwise the
\* exit code is that of validate_group's report.
C17_Behaviour ==
    (pc = "validate_command" /\ ret.kind = "return") =>
        /\ (~store.exists \/ ~store.opens) => ret.value.code = 1
        /\ (store.exists /\ store.opens) =>
               IF conventions = NoneArg /\ detect_conventions(attrs).value = <<>>
               THEN /\ ret.value.code = 0
                    /\ In(Line("No conventions detected in store", ""), ret.value.out)
               ELSE ret.value.code = 0 <=> AllPass(GroupReport.value)

\* A store whose detected spatial convention fails: exit code 1 and a
\* [FAIL] block for spatial.
C17_Witness ==
    /\ pc = "validate_command"
    /\ store.exists /\ store.opens
    /\ conventions = NoneArg
    /\ ret.kind = "return"
    /\ ret.value.code = 1
    /\ In(Line("[FAIL]", "spatial"), ret.value.out)


(***************************************************************************)
(* Order of the detected names, under SpecRegistry.                        *)
(***************************************************************************)
Rank(name) == CASE name = "spatial" -> 1
                [] name = "proj" -> 2
                [] name = "multiscales" -> 3
                [] OTHER -> 4

InFixedOrder(list) == \A i, j \in DOMAIN list : i < j => Rank(list[i]) < Rank(list[j])

\* C21: the list detect_conventions returns is in the order spatial, proj,
\* multiscales for every attribute mapping, registry entries in any order
\* included; detecting a second time returns the same list, and no call
\* changes the mapping.
C21_Claim ==
    /\ (pc \in {"detect_conventions", "detect_conventions_again"} /\ ret.kind = "return") =>
           InFixedOrder(ret.value)
    /\ pc = "detect_conventions_again" => (ret.kind = "return" /\ ret.value = trace[1])

\* What the code does: the names found from the attribute keys come first,
\* in the fixed order, followed by the names found only in the registry in
\* the order the entries declare them; a second detection returns the same
\* list.
C21_Behaviour ==
    /\ (pc \in {"detect_conventions", "detect_conventions_again"} /\ ret.kind = "return") =>
           /\ InFixedOrder(DetectKeys(attrs))
           /\ SubSeq(ret.value, 1, Len(DetectKeys(attrs))) = DetectKeys(attrs)
    /\ pc = "detect_conventions_again" => (ret.kind = "return" /\ ret.value = trace[1])

\* No detection changes the mapping it inspects.
C21_MappingUnchanged == [][attrs' = attrs]_vars

\* A registry that lists the multiscales entry ahead of the spatial one, on
\* a mapping without convention keys, was detected twice.
C21_Witness ==
    /\ pc = "detect_conventions_again"
    /\ DetectKeys(attrs) = <<>>
    /\ RegistryIsList(attrs)
    /\ RegistryOf(attrs) = <<Dict("uuid" :> Str(MULTISCALES_UUID)),
                             Dict("uuid" :> Str(SPATIAL_UUID))>>
    /\ ret.kind = "return"
    /\ ret.value = trace[1]


(***************************************************************************)
(* Failures of the CRS-authority lookup, under SpecProj.                   *)
(***************************************************************************)
\* C22: for a proj:code that matches the pattern, every failure of the
\* lookup (code not registered, lookup raising another exception, pyproj
\* not importable) makes Proj construction fail with a ValidationError whose
\* message is the "does not resolve" one naming the code, and validate_proj
\* return it as an error; nothing else is raised; without a proj:code no
\* lookup is made.
C22_LookupFailures ==
    /\ (pc \in {"Proj", "validate_proj"} /\ CodePresent(attrs)
            /\ CodePatternMatches(ProjCodeOf(attrs).chars)
            /\ ~Resolves(ProjCodeOf(attrs).chars, pyproj)) =>
           LET err == Err("", MsgNotResolved, ProjCodeOf(attrs))
           IN  IF pc = "Proj"
               THEN ret = Raised("ValidationError", <<err>>)
               ELSE ret = Returned(Pair(FALSE, <<err>>))
    /\ (pc \in {"Proj", "validate_proj"} /\ ret.kind = "raise") =>
           ret.exc = "ValidationError"
    /\ (pc \in {"Proj", "validate_proj"} /\ CodeAbsent(attrs)) => LookupsOf(trace) = {}

\* A registered, well-formed code was refused because pyproj is missing.
C22_Witness ==
    /\ pc = "Proj"
    /\ ProjCodeOf(attrs) = Chars(<<"E", ":", "4">>)
    /\ ~pyproj.installed
    /\ ret.kind = "raise"
    /\ ret.errors = <<Err("", MsgNotResolved, ProjCodeOf(attrs))>>


(***************************************************************************)
(* helpers/validation.py: validate_multiscales_structure.                  *)
(***************************************************************************)
MsgNoMultiscalesAttribute == "Group does not have multiscales attribute"
MsgMissingLayoutKey == "multiscales missing 'layout' key"
MsgLevelMissingAsset == "Scale level missing 'asset' key"
MsgAssetNotFound == "Asset '{asset}' not found in group"
MsgDerivedFromNotFound == "derived_from '{derived_from}' not found in group"

\* path in group
Contains(group, path) == path.v \in group.members

\* The derived_from reference is looked at even when the asset is missing.
LevelErrors_always_derived(group, level) ==
    LET asset == Get(level.v, "asset")
        derived_from == Get(level.v, "derived_from")
    IN  (IF ~Truthy(asset) THEN <<Err("", MsgLevelMissingAsset, Null)>>
         ELSE When(~Contains(group, asset), Err("", MsgAssetNotFound, asset)))
        \o When(Truthy(derived_from) /\ ~Contains(group, derived_from),
                Err("", MsgDerivedFromNotFound, derived_from))

\* The body of the loop over multiscales["layout"], for a mapping level.
LevelErrors(group, level) ==
    LET asset == Get(level.v, "asset")
        derived_from == Get(level.v, "derived_from")
    IN  IF ~Truthy(asset) THEN <<Err("", MsgLevelMissingAsset, Null)>>
        ELSE When(~Contains(group, asset), Err("", MsgAssetNotFound, asset))
             \o When(Truthy(derived_from) /\ ~Contains(group, derived_from),
                     Err("", MsgDerivedFromNotFound, derived_from))

RECURSIVE LayoutLevelErrors(_, _)
LayoutLevelErrors(group, levels) ==
    IF levels = <<>> THEN <<>>
    ELSE LevelErrors(group, Head(levels)) \o LayoutLevelErrors(group, Tail(levels))

\* validate_multiscales_structure(group).  A null multiscales value or a null
\* layout cannot be searched or iterated (TypeError); a level that is no
\* mapping has no get (AttributeError).
validate_multiscales_structure(group) ==
    LET a == group.attrs
    IN  IF "multiscales" \notin DOMAIN a
        THEN Returned(Pair(FALSE, <<Err("", MsgNoMultiscalesAttribute, Null)>>))
        ELSE LET multiscales == a["multiscales"]
             IN  IF ~IsDict(multiscales) THEN Raised("TypeError", <<>>)
                 ELSE IF "layout" \notin DOMAIN multiscales.v
                 THEN Returned(Pair(FALSE, <<Err("", MsgMissingLayoutKey, Null)>>))
                 ELSE LET layout == multiscales.v["layout"]
                      IN  IF layout.t # "list" THEN Raised("TypeError", <<>>)
                          ELSE IF \E i \in DOMAIN layout.v : ~IsDict(layout.v[i])
                          THEN Raised("AttributeError", <<>>)
                          ELSE LET errors == LayoutLevelErrors(group, layout.v)
                               IN  Returned(Pair(Len(errors) = 0, errors))

(***************************************************************************)
(* Groups the structure check is exercised on.                             *)
(***************************************************************************)
MemberNames == {"0", "1"}

StructureLevelValues ==
    {Null} \cup
    {Level(m) :
        m \in Merge(Opt("asset", {Null, Str(""), Str("0"), Str("2")}),
                    Opt("derived_from", {Str(""), Str("0"), Str("2")}))}

StructureAttrs ==
    Opt("multiscales",
        {Null, Dict(EmptyMap), Dict("layout" :> Null)}
        \cup {Dict("layout" :> List("dict", q)) :
                  q \in SeqsUpTo(StructureLevelValues, MaxLevels)})

InitStructure ==
    /\ attrs \in StructureAttrs
    /\ conventions = NoneArg
    /\ members \in SUBSET MemberNames
    /\ request = NoRequest
    /\ store = NoStore
    /\ pyproj = NoPyproj
    /\ pc = "start"
    /\ ret = NoReturn
    /\ trace = <<>>

\* validate_multiscales_structure(group)
CallValidateMultiscalesStructure ==
    /\ pc = "start"
    /\ pc' = "validate_multiscales_structure"
    /\ ret' = validate_multiscales_structure(Group(attrs, members))
    /\ UNCHANGED <<attrs, conventions, members, pyproj, request, store, trace>>

NextStructure == CallValidateMultiscalesStructure

SpecStructure == InitStructure /\ [][NextStructure]_vars

(***************************************************************************)
(* Claims about the structure check, under SpecStructure.                  *)
(***************************************************************************)
\* The multiscales attribute is a mapping with a layout of mapping levels.
HasLayout(a) ==
    /\ "multiscales" \in DOMAIN a
    /\ IsDict(a["multiscales"])
    /\ "layout" \in DOMAIN a["multiscales"].v
    /\ a["multiscales"].v["layout"].t = "list"
    /\ \A i \in DOMAIN a["multiscales"].v["layout"].v :
           IsDict(a["multiscales"].v["layout"].v[i])

LevelsOf(a) == a["multiscales"].v["layout"].v
AssetOf(level) == Get(level.v, "asset")
DerivedFromOf(level) == Get(level.v, "derived_from")
NonEmptyString(v) == v.t = "str" /\ v.v # ""
Count(errors, e) == Cardinality({i \in DOMAIN errors : errors[i] = e})

\* C23: on a group whose multiscales attribute has a layout,
\* validate_multiscales_structure returns is_valid = TRUE iff every level has
\* a non-empty asset that is a member of the group and every level's
\* derived_from, when it is a non-empty string, is a member too; the errors
\* are one "not found in group" per dangling asset and per dangling
\* derived_from of a level with an asset, and one "missing 'asset'" per
\* level without an asset, whose derived_from is not looked at; is_valid is
\* TRUE exactly when the error list is empty.  Without a multiscales key, or
\* without a layout key in the multiscales mapping, the result is FALSE with
\* exactly one error.
C23_Structure ==
    pc = "validate_multiscales_structure" =>
        /\ HasLayout(attrs) =>
               LET levels == LevelsOf(attrs)
                   with == {i \in DOMAIN levels : NonEmptyString(AssetOf(levels[i]))}
                   dangling(v) == NonEmptyString(v) /\ v.v \notin members
                   expected ==
                       {Err("", MsgLevelMissingAsset, Null) : i \in DOMAIN levels \ with}
                       \cup {Err("", MsgAssetNotFound, AssetOf(levels[i])) :
                                 i \in {j \in with : dangling(AssetOf(levels[j]))}}
                       \cup {Err("", MsgDerivedFromNotFound, DerivedFromOf(levels[i])) :
                                 i \in {j \in with : dangling(DerivedFromOf(levels[j]))}}
               IN  /\ ret.kind = "return"
                   /\ ret.value.is_valid <=>
                          \A i \in DOMAIN levels :
                              /\ NonEmptyString(AssetOf(levels[i]))
                              /\ AssetOf(levels[i]).v \in members
                              /\ NonEmptyString(DerivedFromOf(levels[i])) =>
                                     DerivedFromOf(levels[i]).v \in members
                   /\ ret.value.is_valid <=> ret.value.errors = <<>>
                   /\ {ret.value.errors[i] : i \in DOMAIN ret.value.errors} = expected
                   /\ Len(ret.value.errors) =
                          Cardinality(DOMAIN levels \ with)
                          + Cardinality({j \in with : dangling(AssetOf(levels[j]))})
                          + Cardinality({j \in with : dangling(DerivedFromOf(levels[j]))})
        /\ ("multiscales" \notin DOMAIN attrs
                \/ (IsDict(attrs["multiscales"])
                        /\ "layout" \notin DOMAIN attrs["multiscales"].v)) =>
               /\ ret.kind = "return"
               /\ ~ret.value.is_valid
               /\ Len(ret.value.errors) = 1

\* Two levels: one whose derived_from dangles next to a present asset, one
\* without an asset whose dangling derived_from goes unreported.
C23_Witness ==
    /\ pc = "validate_multiscales_structure"
    /\ members = {"0"}
    /\ HasLayout(attrs)
    /\ LevelsOf(attrs) = <<Level(("asset" :> Str("0")) @@ ("derived_from" :> Str("2"))),
                           Level("derived_from" :> Str("2"))>>
    /\ ret = Returned(Pair(FALSE, <<Err("", MsgDerivedFromNotFound, Str("2")),
                                    Err("", MsgLevelMissingAsset, Null)>>))


(***************************************************************************)
(* Fail-fast of the spatial builder, under SpecBuilders.                   *)
(***************************************************************************)
TransformPassed(kw) == "transform" \in DOMAIN kw /\ kw["transform"].t = "list"

\* C24: create_spatial_attrs raises whenever it is passed a transform whose
\* length is not 6, the empty one included; hence a mapping it returns has
\* no spatial:transform or has one of length 6 equal to the one passed in.
C24_Claim ==
    pc = "create_spatial_attrs" =>
        /\ (TransformPassed(attrs) /\ Len(attrs["transform"].v) # 6) => ret.kind = "raise"
        /\ ret.kind = "return" =>
               \/ "spatial:transform" \notin DOMAIN ret.value
               \/ /\ TransformPassed(attrs)
                  /\ Len(ret.value["spatial:transform"].v) = 6
                  /\ ret.value["spatial:transform"] = attrs["transform"]

\* What the code does: a non-empty transform of another length than 6
\* raises; an empty one is turned into None before the record is built and
\* is silently left out of the mapping.
C24_Behaviour ==
    pc = "create_spatial_attrs" =>
        /\ (TransformPassed(attrs) /\ Len(attrs["transform"].v) \notin {0, 6}) =>
               ret.kind = "raise"
        /\ (TransformPassed(attrs) /\ Len(attrs["transform"].v) = 0 /\ ret.kind = "return") =>
               "spatial:transform" \notin DOMAIN ret.value
        /\ ret.kind = "return" =>
               \/ "spatial:transform" \notin DOMAIN ret.value
               \/ /\ TransformPassed(attrs)
                  /\ Len(ret.value["spatial:transform"].v) = 6
                  /\ ret.value["spatial:transform"] = attrs["transform"]

\* An empty transform was passed with valid dimensions: a mapping came back.
C24_Witness ==
    /\ pc = "create_spatial_attrs"
    /\ DOMAIN attrs = {"dimensions", "transform"}
    /\ TransformPassed(attrs)
    /\ attrs["transform"].v = <<>>
    /\ ret.kind = "return"
    /\ DOMAIN ret.value =
           {"spatial:dimensions", "spatial:transform_type", "spatial:registration"}


(***************************************************************************)
(* derived_from and transform of a scale level, under SpecMultiscales.     *)
(***************************************************************************)
\* The level names its source and carries no transform.
DerivedWithoutTransform(level) ==
    /\ IsDict(level)
    /\ "derived_from" \in DOMAIN level.v
    /\ IsStr(level.v["derived_from"])
    /\ "transform" \notin DOMAIN level.v

HasLayoutList(a) ==
    "multiscales" \in DOMAIN a /\ IsDict(a["multiscales"]) /\ IsLayoutList(a)

Rejected ==
    \/ pc = "Multiscales" /\ ret.kind = "raise"
    \/ pc = "validate_multiscales" /\ ret.kind = "return" /\ ~ret.value.is_valid

\* C25: a scale level with derived_from set and transform omitted is
\* rejected: Multiscales construction of a layout that contains such a level
\* raises, and validate_multiscales on such attributes reports it invalid.
C25_Claim ==
    (pc \in {"Multiscales", "validate_multiscales"} /\ HasLayoutList(attrs)
        /\ \E i \in DOMAIN LayoutOf(attrs).v :
               DerivedWithoutTransform(LayoutOf(attrs).v[i])) =>
        Rejected

\* What the code does: ScaleLevel declares transform as optional and has no
\* validator, so a level is judged on the types of its fields alone; a
\* layout of levels with a string asset and a string derived_from is
\* accepted without any transform.
C25_Behaviour ==
    (pc \in {"Multiscales", "validate_multiscales"} /\ HasLayoutList(attrs)
        /\ TopLevelWellTyped(attrs)
        /\ Len(LayoutOf(attrs).v) > 0
        /\ \A i \in DOMAIN LayoutOf(attrs).v :
               /\ CarriesStringAsset(LayoutOf(attrs).v[i])
               /\ DerivedWithoutTransform(LayoutOf(attrs).v[i])) =>
        ~Rejected

\* The layout of the test suite: level 0, and level 1 derived from it
\* without a transform, was constructed.
C25_Witness ==
    /\ pc = "Multiscales"
    /\ HasLayoutList(attrs)
    /\ LayoutOf(attrs).v = <<Level("asset" :> Str("0")),
                             Level(("asset" :> Str("1")) @@ ("derived_from" :> Str("0")))>>
    /\ ret.kind = "return"


(***************************************************************************)
(* The bounds of a Spatial record, under SpecSpatial.                      *)
(***************************************************************************)
SpatialBboxOf(a) == FieldValue(a, "spatial:bbox", "bbox")

\* C26: in every Spatial record that is constructed, and so in every
\* mapping validate_spatial reports without errors, spatial:bbox is absent
\* or a sequence of exactly 4 or exactly 6 numbers.
C26_Claim ==
    /\ (pc = "Spatial" /\ ret.kind = "return") =>
           \/ ret.value.bbox = Null
           \/ IsListOf(ret.value.bbox, "num") /\ Len(ret.value.bbox.v) \in {4, 6}
    /\ (pc = "validate_spatial" /\ ret.value.is_valid) =>
           \/ SpatialBboxOf(attrs) \in {Unset, Null}
           \/ IsListOf(SpatialBboxOf(attrs), "num") /\ Len(SpatialBboxOf(attrs).v) \in {4, 6}

\* What the code does: bbox is declared list[float] | None and no
\* validator looks at its length; a constructed record holds the bbox that
\* was supplied, a list of numbers of any length, or None.
C26_Behaviour ==
    /\ (pc = "Spatial" /\ ret.kind = "return") =>
           /\ ret.value.bbox = Null \/ IsListOf(ret.value.bbox, "num")
           /\ SpatialBboxOf(attrs) # Unset => ret.value.bbox = SpatialBboxOf(attrs)
    /\ (pc = "validate_spatial" /\ ret.value.is_valid) =>
           \/ SpatialBboxOf(attrs) \in {Unset, Null}
           \/ IsListOf(SpatialBboxOf(attrs), "num")

\* A record was constructed with a bbox of three bounds.
C26_Witness ==
    /\ pc = "Spatial"
    /\ SpatialBboxOf(attrs) = NumList(3)
    /\ ret.kind = "return"
    /\ ret.value.bbox = NumList(3)


(***************************************************************************)
(* The four per-convention validators side by side.                        *)
(***************************************************************************)
InitValidators ==
    /\ attrs \in EngineAttrs
    /\ conventions = NoneArg
    /\ members = {}
    /\ request = NoRequest
    /\ store = NoStore
    /\ pyproj \in {Registered, NoPyproj}
    /\ pc = "start"
    /\ ret = NoReturn
    /\ trace = <<>>

NextValidators ==
    \/ CallValidateSpatial
    \/ CallValidateProj
    \/ CallValidateMultiscales
    \/ CallValidateZarrConventions

SpecValidators == InitValidators /\ [][NextValidators]_vars

ValidatorNames ==
    {"validate_spatial", "validate_proj", "validate_multiscales", "validate_zarr_conventions"}

\* C27: whenever validate_spatial, validate_proj, validate_multiscales or
\* validate_zarr_conventions returns, is_valid is TRUE exactly when the
\* error list is empty.
C27_ValidIffNoErrors ==
    (pc \in ValidatorNames /\ ret.kind = "return") =>
        (ret.value.is_valid <=> ret.value.errors = <<>>)

\* validate_zarr_conventions returned a failure with two errors, one per
\* entry of the registry.
C27_Witness ==
    /\ pc = "validate_zarr_conventions"
    /\ ret.kind = "return"
    /\ ~ret.value.is_valid
    /\ Len(ret.value.errors) = 2


(***************************************************************************)
(* The extent from_geotransform computes, under SpecBuilders.              *)
(***************************************************************************)
\* The geotransform [c, a, b, f, d, e] applied to the grid position.
CornerX(g, col, row) == g[2] * col + g[3] * row + g[1]
CornerY(g, col, row) == g[5] * col + g[6] * row + g[4]

\* The bbox holds the four corners of the grid of the given shape.
HoldsCorners(bbox, g, shape) ==
    \A col \in {0, shape[2]}, row \in {0, shape[1]} :
        /\ bbox[1] <= CornerX(g, col, row) /\ CornerX(g, col, row) <= bbox[3]
        /\ bbox[2] <= CornerY(g, col, row) /\ CornerY(g, col, row) <= bbox[4]

\* C28: the spatial:bbox from_geotransform returns holds all four corners
\* of the grid, for every geotransform, rotation terms b and d included, and
\* every shape.
C28_Claim ==
    (pc = "from_geotransform" /\ ret.kind = "return") =>
        HoldsCorners(ret.value["spatial:bbox"].v, attrs["geotransform"].v, attrs["shape"].v)

\* What the code does: the bbox is spanned by the two corners (0, 0) and
\* (width, height) only; it holds the four corners when b and d are zero.
C28_Behaviour ==
    (pc = "from_geotransform" /\ ret.kind = "return") =>
        LET g == attrs["geotransform"].v
            shape == attrs["shape"].v
            bbox == ret.value["spatial:bbox"].v
        IN  /\ {bbox[1], bbox[3]} = {CornerX(g, 0, 0), CornerX(g, shape[2], shape[1])}
            /\ {bbox[2], bbox[4]} = {CornerY(g, 0, 0), CornerY(g, shape[2], shape[1])}
            /\ (g[3] = 0 /\ g[5] = 0) => HoldsCorners(bbox, g, shape)

\* A rotated grid whose corner (width, 0) lies outside the returned bbox.
C28_Witness ==
    /\ pc = "from_geotransform"
    /\ ret.kind = "return"
    /\ attrs["geotransform"].v = <<2, -1, 1, 2, 0, -1>>
    /\ attrs["shape"].v = <<1, 1>>
    /\ ret.value["spatial:bbox"].v = <<2, 1, 2, 2>>
    /\ CornerX(attrs["geotransform"].v, 1, 0) = 1


(***************************************************************************)
(* Wire keys and field names, under SpecValidators.                        *)
(***************************************************************************)
ProjWireKeys == {"proj:code", "proj:wkt2", "proj:projjson"}
ProjFieldNames == {"code", "wkt2", "projjson"}

\* C29: validate_spatial succeeds only on a mapping with the key
\* spatial:dimensions and validate_proj only on one with proj:code, proj:wkt2
\* or proj:projjson; un-prefixed keys never satisfy a constraint, so a
\* convention that passes is one the attribute keys alone let
\* detect_conventions find.
C29_Claim ==
    /\ (pc = "validate_spatial" /\ ret.value.is_valid) =>
           /\ "spatial:dimensions" \in DOMAIN attrs
           /\ In("spatial", DetectKeys(attrs))
    /\ (pc = "validate_proj" /\ ret.value.is_valid) =>
           /\ DOMAIN attrs \cap ProjWireKeys # {}
           /\ In("proj", DetectKeys(attrs))

\* What the code does: both models set populate_by_name, so a field is
\* also read under its un-prefixed name; a passing mapping has the wire key
\* or the field name.
C29_Behaviour ==
    /\ (pc = "validate_spatial" /\ ret.value.is_valid) =>
           DOMAIN attrs \cap {"spatial:dimensions", "dimensions"} # {}
    /\ (pc = "validate_proj" /\ ret.value.is_valid) =>
           DOMAIN attrs \cap (ProjWireKeys \cup ProjFieldNames) # {}

\* validate_spatial passed a mapping whose only key is the un-prefixed
\* dimensions, in which the detector finds nothing.
C29_Witness ==
    /\ pc = "validate_spatial"
    /\ DOMAIN attrs = {"dimensions"}
    /\ ret = Returned(Pair(TRUE, <<>>))
    /\ detect_conventions(attrs) = Returned(<<>>)


(***************************************************************************)
(* The registry check and the identity schema on the same entry.           *)
(***************************************************************************)
\* A registry holding the one entry e.
RegistryWith(e) == "zarr_conventions" :> List("dict", <<Dict(e)>>)
EntryOf(a) == a["zarr_conventions"].v[1].v

InitAgreement ==
    /\ attrs \in {RegistryWith(e) : e \in IdentityAttrs}
    /\ conventions = NoneArg
    /\ members = {}
    /\ request = NoRequest
    /\ store = NoStore
    /\ pyproj = NoPyproj
    /\ pc = "start"
    /\ ret = NoReturn
    /\ trace = <<>>

\* ZarrConventionMetadata(**e) for the entry e of the registry
ConstructEntry ==
    /\ pc = "start"
    /\ pc' = "ZarrConventionMetadata"
    /\ ret' = Constructed(ZarrConventionMetadata(EntryOf(attrs)))
    /\ trace' = <<Construct("ZarrConventionMetadata")>>
    /\ UNCHANGED <<attrs, conventions, members, pyproj, request, store>>

NextAgreement == ConstructEntry \/ CallValidateZarrConventions

SpecAgreement == InitAgreement /\ [][NextAgreement]_vars

\* C30: for every mapping entry e, validate_zarr_conventions reports no
\* error for e exactly when ZarrConventionMetadata(**e) constructs.
C30_Claim ==
    /\ pc = "validate_zarr_conventions" =>
           (ret.value.is_valid <=> ZarrConventionMetadata(EntryOf(attrs)).ok)
    /\ pc = "ZarrConventionMetadata" =>
           ((ret.kind = "return") <=> validate_zarr_conventions(attrs).value.is_valid)

\* What the code does: the registry check passes an entry when one of
\* uuid, schema_url, spec_url has a truthy value, whatever its other keys;
\* the schema constructs when one of them is supplied, no unknown key is
\* supplied and no supplied field is null.  The two agree on the entries
\* without unknown keys, null fields and empty identifiers.
C30_Behaviour ==
    LET e == EntryOf(attrs)
        plain == /\ NoUnknownKey(e)
                 /\ \A k \in DOMAIN e : e[k] # Null
                 /\ \A k \in IdentifierKeys \cap DOMAIN e : e[k] # Str("")
    IN  /\ pc = "validate_zarr_conventions" =>
               /\ ret.value.is_valid <=> \E k \in IdentifierKeys : Truthy(Get(e, k))
               /\ plain => (ret.value.is_valid <=> ZarrConventionMetadata(e).ok)
        /\ pc = "ZarrConventionMetadata" =>
               /\ (ret.kind = "return") <=>
                      /\ \E k \in IdentifierKeys : k \in DOMAIN e
                      /\ NoUnknownKey(e)
                      /\ \A k \in DOMAIN e : e[k] # Null
               /\ plain =>
                      ((ret.kind = "return") <=> validate_zarr_conventions(attrs).value.is_valid)

\* An entry with a uuid and an unknown key: refused by the schema, passed
\* by the registry check.
C30_Witness ==
    /\ pc = "ZarrConventionMetadata"
    /\ EntryOf(attrs) = ("uuid" :> Str(SPATIAL_UUID)) @@ ("version" :> Str("1"))
    /\ ret.kind = "raise"
    /\ validate_zarr_conventions(attrs) = Returned(Pair(TRUE, <<>>))

====
